---- MODULE Spec2Model ----
(***************************************************************************)
(* Model of the audio/video-reactive visualiser: the particle pools        *)
(* (spark, bubble rain, spark rain), the motion extractors, the audio       *)
(* analyser and the render loop.                                            *)
(*                                                                          *)
(* Numbers.  The program computes in IEEE doubles.  The model keeps every   *)
(* real quantity in thousandths ("milli": 1.0 is 1000) and rounds every     *)
(* product down; time steps are in milliseconds.  Byte buffers              *)
(* (Uint8ClampedArray) are integers 0..255 and are computed exactly.        *)
(* Math.random() is an input r (in thousandths) drawn from Rand.            *)
(***************************************************************************)
EXTENDS Integers, Sequences, FiniteSets, TLC

VARIABLES pool,      \* a stand-alone particle system (SpecPool)
          poolOp,    \* the last operation completed on pool
          poolOps,   \* the number of operations performed on pool
          audio,     \* the AudioAnalyzer object
          now,       \* Date.now(), in ms
          audioOut,  \* the outcome of the last call on audio
          audioCalls,\* the number of lifecycle-specification calls on audio
          beatLog,   \* the getBeatDetected calls so far: input level and result
          cam,       \* a stand-alone motion extractor (SpecMotion)
          camOp,     \* the last operation on cam: its name and whether a frame was analysed
          camSeen,   \* the frames delivered to cam: their number, the last colour, the changes
          webcamAnalyzer, \* index.js: the WebcamAnalyzer, NullRec for null
          iphoneSource,   \* index.js: the IPhoneCameraSource, NullRec for null
          orphans,   \* the sources index.js has let go of while their connect is pending
          visualizer,\* index.js: the Visualizer, NullRec before it is created
          app,       \* index.js: isPaused, the dialog, the progress of init, the render loop
          tick,      \* what the last render call did
          steps      \* the number of user actions and of animation frames so far

poolVars == <<pool, poolOp, poolOps>>
audioVars == <<audio, now, audioOut, audioCalls, beatLog>>
camVars == <<cam, camOp, camSeen>>
appVars == <<webcamAnalyzer, iphoneSource, orphans, visualizer, app, tick, steps>>

\* a motion buffer that is absent (null)
NoBuffer == << >>

(***************************************************************************)
(* Bounds of the model.                                                     *)
(***************************************************************************)
\* capacity of a pool at construction (the program passes 2000 / 1500 / 8000)
PoolSize == 3
\* width and height of the motion grid (the program uses 160 x 120)
GridW == 16
GridH == 2
\* the time step handed to a stand-alone pool, in ms
TickMs == 250
\* the number of method calls made on a stand-alone pool
MaxPoolOps == 5
\* analyser.frequencyBinCount (the program's is 1024)
BinCount == 16
\* the number of calls made on an analyser in the lifecycle specification
MaxAudioCalls == 4
\* the number of getBeatDetected calls, and of loud frames among them
MaxBeatCalls == 46
MaxSpikes == 2
\* the time between two getBeatDetected calls, in ms
FrameMs == 50
\* the frames a stand-alone motion extractor analyses, and the times the
\* picture in front of the camera changes
MaxFrames == 27
MovingFrames == 3
\* the user's actions and the animation frames of a run
MaxSteps == 6
\* the update calls of a run on arrays of any length
MaxUpdates == 2
\* the range of the pool size slider (500 to 10000 particles in the program),
\* and the setter calls of a run
MinParticles == 2
MaxParticles == 4
MaxCalls == 3

\* the values Math.random() takes, in thousandths
Rand == {5, 800}

(***************************************************************************)
(* Arithmetic helpers.                                                      *)
(***************************************************************************)
Min2(a, b) == IF a < b THEN a ELSE b
Max2(a, b) == IF a > b THEN a ELSE b
Abs(a) == IF a < 0 THEN -a ELSE a
MinOf(S) == CHOOSE m \in S : \A n \in S : m <= n

\* product of two values in thousandths
FMul(a, b) == (a * b) \div 1000

\* Math.sqrt on a sum of squares of thousandths, rounded down
ISqrt(n) == CHOOSE k \in 0..2000 : k * k <= n /\ (k + 1) * (k + 1) > n

Pixels == 0..(GridW * GridH - 1)

(***************************************************************************)
(* Motion buffers handed to a stand-alone pool: none, all cold, and a blob  *)
(* of hot cells in the last row with a gap of cold cells inside it.         *)
(***************************************************************************)
InBlob(i) ==
    LET x == i % GridW
        y == i \div GridW
    IN  /\ y = GridH - 1
        /\ \/ x < GridW \div 4
           \/ (x >= GridW \div 2 /\ x < GridW - 1)

ColdBuffer == [i \in 1..(GridW * GridH) |-> 0]
BlobBuffer == [i \in 1..(GridW * GridH) |-> IF InBlob(i - 1) THEN 255 ELSE 0]
HotBuffer == [i \in 1..(GridW * GridH) |-> 255]

\* the pixels a random sample may hit: a cold one, the blob's edge, its inside
SamplePixels == {0, (GridH - 1) * GridW + GridW \div 2, (GridH - 1) * GridW + GridW \div 2 + 2}

(***************************************************************************)
(* The pool shared by all particle systems.                                 *)
(***************************************************************************)
\* a search that hands out the slot under the cursor whatever it holds
FindAtCursor(P) == P.nextFreeSlot

\* findInactiveParticle: the index (from 0) of the first inactive slot at or
\* after the cursor, or -1 when every slot is active
FindInactiveParticle(P) ==
    LET free == {i \in 0..(P.maxParticles - 1) :
                    ~P.particles[((P.nextFreeSlot + i) % P.maxParticles) + 1].active}
    IN  IF free = {} THEN -1
        ELSE (P.nextFreeSlot + MinOf(free)) % P.maxParticles

\* the assignments of a spawn to the particle object of a slot: the fields
\* written take their new values, any other field keeps what the slot held
Assigned(slot, written) ==
    [f \in DOMAIN slot |-> IF f \in DOMAIN written THEN written[f] ELSE slot[f]]

\* a spawn that leaves the size of the slot's previous occupant
TakeSlotKeepSize(P, idx, particle) ==
    [P EXCEPT !.particles[idx + 1] =
                 Assigned(@, [f \in DOMAIN particle \ {"size"} |-> particle[f]]),
              !.nextFreeSlot = (idx + 1) % P.maxParticles]

\* the slot is handed out: the cursor moves past it, and the spawn writes the
\* fields of particle into the object the slot holds
TakeSlot(P, idx, particle) ==
    [P EXCEPT !.particles[idx + 1] = Assigned(@, particle),
              !.nextFreeSlot = (idx + 1) % P.maxParticles]

NumActive(P) == Cardinality({i \in 1..P.maxParticles : P.particles[i].active})

\* updateBuffers packs the active particles and sets the draw range to their number
UpdateBuffers(P) == [P EXCEPT !.drawRange = NumActive(P)]

\* clear() deactivates the whole pool and keeps the storage
Clear(P) ==
    UpdateBuffers([P EXCEPT !.particles = [i \in 1..P.maxParticles |->
                                              [P.particles[i] EXCEPT !.active = FALSE]],
                            !.activeCount = 0])

(***************************************************************************)
(* SparkParticleSystem.                                                     *)
(***************************************************************************)
SparkInitParticle ==
    [x |-> 0, y |-> 0, vx |-> 0, vy |-> 0, age |-> 1000, lifetime |-> 1000,
     size |-> 1000, colorIndex |-> 0, active |-> FALSE]

NewSparkSystem(max) ==
    [kind |-> "spark", maxParticles |-> max, activeCount |-> 0,
     density |-> 1000, colorMode |-> 0, sizeMultiplier |-> 1000,
     particles |-> [i \in 1..max |-> SparkInitParticle],
     nextFreeSlot |-> 0, drawRange |-> 0, visible |-> FALSE]

\* the particle spawnFromMotion writes into a free slot
SparkSpawned(x, y, width, height, mag, r) ==
    LET speedFactor == Min2(2000, mag * 2)
    IN  [x |-> (x * 1000) \div width,
         y |-> 1000 - (y * 1000) \div height,
         vx |-> ((r - 500) * 20) \div 1000,
         vy |-> ((r - 500) * 20) \div 1000,
         age |-> 0,
         lifetime |-> 400 + FMul(speedFactor, 400),
         size |-> 300 + FMul(speedFactor, 500),
         colorIndex |-> r,
         active |-> TRUE]

\* the sample loop of spawnFromMotion; tape names the pixel each sample hits
RECURSIVE SpawnSamples(_, _, _, _)
SpawnSamples(P, i, numSamples, c) ==
    IF i >= numSamples THEN P
    ELSE
      LET px == IF i < c.tape.n THEN c.tape.p ELSE c.tape.q
          x == px % c.width
          y == px \div c.width
          motion == c.buffer[px + 1]
          aheadX == (x * 1000 + c.dirX * 4) \div 1000
          aheadY == (y * 1000 + c.dirY * 4) \div 1000
          inside == aheadX >= 0 /\ aheadX < c.width /\ aheadY >= 0 /\ aheadY < c.height
          motionAhead == c.buffer[aheadY * c.width + aheadX + 1]
          idx == FindInactiveParticle(P)
          \* a sample that is skipped changes nothing, and so do the following
          \* samples of the same pixel: continue at the next pixel of the tape
          skipTo == IF i < c.tape.n THEN c.tape.n ELSE numSamples
      IN  IF motion < 40 THEN SpawnSamples(P, skipTo, numSamples, c)
          ELSE IF ~inside THEN SpawnSamples(P, skipTo, numSamples, c)
          ELSE IF 2 * motionAhead > motion THEN SpawnSamples(P, skipTo, numSamples, c)
          ELSE IF idx = -1 THEN P
          ELSE SpawnSamples(
                 [TakeSlot(P, idx, SparkSpawned(x, y, c.width, c.height, c.mag, c.tape.r))
                    EXCEPT !.activeCount = P.activeCount + 1],
                 i + 1, numSamples, c)

SpawnFromMotion(P, motionBuffer, width, height, velX, velY, intensity, tape) ==
    LET mag == ISqrt(velX * velX + velY * velY)
    IN  IF intensity < 30 \/ motionBuffer = NoBuffer THEN P
        ELSE IF mag < 80 THEN P
        ELSE SpawnSamples(P, 0, (150 * P.density) \div 1000,
                          [buffer |-> motionBuffer, width |-> width, height |-> height,
                           dirX |-> (velX * 1000) \div mag,
                           dirY |-> (-velY * 1000) \div mag,
                           mag |-> mag, tape |-> tape])

\* a particle that the update leaves as it is
SparkStepFrozen(p, dt) == p

SparkStep(p, dt) ==
    LET q == [p EXCEPT !.x = p.x + (p.vx * dt) \div 1000,
                       !.y = p.y + (p.vy * dt) \div 1000,
                       !.vx = FMul(p.vx, 980),
                       !.vy = FMul(p.vy, 980),
                       !.age = p.age + (dt * 1000) \div p.lifetime]
    IN  IF q.age >= 1000 \/ q.x < -200 \/ q.x > 1200 \/ q.y < -200 \/ q.y > 1200
        THEN [q EXCEPT !.active = FALSE]
        ELSE q

\* the particle loop of update: activeCount counts the particles that stay active
RECURSIVE SparkLoop(_, _, _)
SparkLoop(P, i, dt) ==
    IF i > P.maxParticles THEN P
    ELSE IF ~P.particles[i].active THEN SparkLoop(P, i + 1, dt)
    ELSE LET q == SparkStep(P.particles[i], dt)
         IN  SparkLoop([P EXCEPT !.particles[i] = q,
                                 !.activeCount = IF q.active THEN @ + 1 ELSE @],
                       i + 1, dt)

SparkUpdate(P, dt) ==
    UpdateBuffers(SparkLoop([P EXCEPT !.activeCount = 0], 1, dt))

(***************************************************************************)
(* The spawn loop shared by the rain systems: spawnAccumulator grows by     *)
(* spawnRate * dt and one particle is spawned for every whole unit.         *)
(***************************************************************************)
\* spawnBubble: a bubble enters above the top edge
SpawnBubble(P, r) ==
    LET idx == FindInactiveParticle(P)
    IN  IF idx = -1 THEN P
        ELSE TakeSlot(P, idx,
               [x |-> r, y |-> 1050,
                vx |-> ((r - 500) * 20) \div 1000,
                vy |-> -500 - FMul(r, 500),
                size |-> 400 + FMul(r, 400),
                alpha |-> 900 + FMul(r, 100),
                bounces |-> 0, active |-> TRUE])

\* spawnSpark of the spark-rain system (x = -1: no x given, anywhere along the top)
SpawnSpark(P, x, isTrail, r) ==
    LET idx == FindInactiveParticle(P)
        size == IF isTrail THEN 200 + FMul(r, 300)
                ELSE IF r > 950 THEN 1200 + FMul(r, 800)
                ELSE IF r > 700 THEN 600 + FMul(r, 500)
                ELSE 300 + FMul(r, 400)
        maxAge == IF isTrail THEN 300 + FMul(r, 300)
                  ELSE IF r > 950 THEN 2500 + r
                  ELSE IF r > 700 THEN 1500 + r
                  ELSE 1000 + FMul(r, 800)
    IN  IF idx = -1 THEN P
        ELSE TakeSlot(P, idx,
               [x |-> IF x # -1 THEN x ELSE r,
                y |-> 1020 + FMul(r, 50),
                vx |-> ((r - 500) * 150) \div 1000,
                vy |-> -800 - FMul(r, 600),
                size |-> size, maxAge |-> maxAge,
                heat |-> Min2(1000, 300 + FMul(size, 400) + FMul(r, 300)),
                alpha |-> 800 + FMul(r, 200),
                seed |-> FMul(r, 6283),
                age |-> 0, bounces |-> 0, active |-> TRUE])

SpawnOne(P, r) ==
    IF P.kind = "bubble" THEN SpawnBubble(P, r) ELSE SpawnSpark(P, -1, FALSE, r)

RECURSIVE SpawnWhile(_, _)
SpawnWhile(P, r) ==
    IF P.spawnAccumulator < 1000 THEN P
    ELSE IF FindInactiveParticle(P) = -1
         \* the pool is full: the remaining rounds only drain the accumulator
         THEN [P EXCEPT !.spawnAccumulator = @ % 1000]
    ELSE SpawnWhile([SpawnOne(P, r) EXCEPT !.spawnAccumulator = @ - 1000], r)

SpawnByRate(P, dt, r) ==
    SpawnWhile([P EXCEPT !.spawnAccumulator = @ + P.spawnRate * dt], r)

\* spawnBurst: count sparks clustered around a random centre
RECURSIVE SpawnBurst(_, _, _)
SpawnBurst(P, count, r) ==
    IF count = 0 \/ FindInactiveParticle(P) = -1 THEN P
    ELSE SpawnBurst(SpawnSpark(P, Max2(0, Min2(1000, r + ((r - 500) * 100) \div 1000)),
                               FALSE, r),
                    count - 1, r)

\* the cell of the motion buffer under a particle, or -1 outside the buffer
CellUnder(p, motionBuffer, motionWidth, motionHeight) ==
    LET bufX == (p.x * motionWidth) \div 1000
        bufY == ((1000 - p.y) * motionHeight) \div 1000
    IN  IF motionBuffer = NoBuffer \/ motionWidth = 0 \/ motionHeight = 0 THEN -1
        ELSE IF bufX >= 0 /\ bufX < motionWidth /\ bufY >= 0 /\ bufY < motionHeight
             THEN motionBuffer[bufY * motionWidth + bufX + 1]
             ELSE -1

(***************************************************************************)
(* BubbleParticleSystem, the bubble-rain variant: gravity and bounce.       *)
(***************************************************************************)
NewBubbleSystem(max) ==
    [kind |-> "bubble", maxParticles |-> max, activeCount |-> 0,
     gravity |-> 4000, bounceDamping |-> 300, spawnRate |-> 80, motionThreshold |-> 35,
     particles |-> [i \in 1..max |->
                      [x |-> 0, y |-> 0, vx |-> 0, vy |-> 0, size |-> 1000,
                       alpha |-> 1000, bounces |-> 0, active |-> FALSE]],
     nextFreeSlot |-> 0, spawnAccumulator |-> 0, drawRange |-> 0, visible |-> TRUE]

BubbleStep(P, p, dt, motionBuffer, motionWidth, motionHeight, r) ==
    LET vy1 == p.vy - (P.gravity * dt) \div 1000
        moved == [p EXCEPT !.vy = vy1,
                           !.x = p.x + (p.vx * dt) \div 1000,
                           !.y = p.y + (vy1 * dt) \div 1000]
        hit == CellUnder(moved, motionBuffer, motionWidth, motionHeight) > P.motionThreshold
        bounced == IF hit
                   THEN [moved EXCEPT !.vy = FMul(-vy1, P.bounceDamping),
                                      !.vx = FMul(p.vx + ((r - 500) * 100) \div 1000, 500),
                                      !.y = p.y + 10,
                                      !.alpha = FMul(p.alpha, 850),
                                      !.bounces = p.bounces + 1]
                   ELSE moved
        q == [bounced EXCEPT !.vx = FMul(bounced.vx, 900)]
    IN  IF q.y < -100 \/ q.x < -100 \/ q.x > 1100 \/ q.bounces > 3 \/ q.alpha < 100
        THEN [q EXCEPT !.active = FALSE]
        ELSE q

RECURSIVE BubbleLoop(_, _, _, _, _, _, _)
BubbleLoop(P, i, dt, motionBuffer, motionWidth, motionHeight, r) ==
    IF i > P.maxParticles THEN P
    ELSE IF ~P.particles[i].active
         THEN BubbleLoop(P, i + 1, dt, motionBuffer, motionWidth, motionHeight, r)
    ELSE LET q == BubbleStep(P, P.particles[i], dt, motionBuffer, motionWidth, motionHeight, r)
         IN  BubbleLoop([P EXCEPT !.particles[i] = q,
                                  !.activeCount = IF q.active THEN @ + 1 ELSE @],
                        i + 1, dt, motionBuffer, motionWidth, motionHeight, r)

BubbleUpdate(P, dt, motionBuffer, motionWidth, motionHeight, r) ==
    UpdateBuffers(BubbleLoop([SpawnByRate(P, dt, r) EXCEPT !.activeCount = 0],
                             1, dt, motionBuffer, motionWidth, motionHeight, r))

(***************************************************************************)
(* BubbleParticleSystem, the spark-rain variant: heat, age and impact       *)
(* trails.                                                                  *)
(***************************************************************************)
NewSparkRainSystem(max, r) ==
    [kind |-> "sparkrain", maxParticles |-> max, activeCount |-> 0,
     gravity |-> 3500, bounceDamping |-> 400, spawnRate |-> 250, motionThreshold |-> 30,
     particles |-> [i \in 1..max |->
                      [x |-> 0, y |-> 0, vx |-> 0, vy |-> 0, size |-> 1000,
                       alpha |-> 1000, heat |-> 500, seed |-> FMul(r, 6283),
                       age |-> 0, maxAge |-> 2000, bounces |-> 0, active |-> FALSE]],
     nextFreeSlot |-> 0, spawnAccumulator |-> 0, drawRange |-> 0, visible |-> TRUE]

\* the trail particle an impact leaves behind, written into a free slot
TrailOf(p, r) ==
    [x |-> p.x + ((r - 500) * 20) \div 1000,
     y |-> p.y,
     vx |-> ((r - 500) * 500) \div 1000,
     vy |-> FMul(r, 300),
     size |-> FMul(p.size, 400),
     alpha |-> FMul(p.alpha, 600),
     heat |-> FMul(p.heat, 700),
     seed |-> FMul(r, 6283),
     age |-> 0, maxAge |-> 400, bounces |-> 3, active |-> TRUE]

\* the two trail sparks of a first impact, each into the next free slot if any
RECURSIVE SpawnTrails(_, _, _, _)
SpawnTrails(P, p, t, r) ==
    IF t = 0 THEN P
    ELSE LET idx == FindInactiveParticle(P)
         IN  SpawnTrails(IF idx = -1 THEN P ELSE TakeSlot(P, idx, TrailOf(p, r)),
                         p, t - 1, r)

\* one active particle of the spark-rain loop, up to the impact
SparkRainImpact(P, p, dt, motionBuffer, motionWidth, motionHeight, r) ==
    LET vy1 == p.vy - (P.gravity * dt) \div 1000
        moved == [p EXCEPT !.age = p.age + dt,
                           !.x = p.x + (p.vx * dt) \div 1000,
                           !.y = p.y + (vy1 * dt) \div 1000,
                           !.vx = FMul(p.vx, 995),
                           !.vy = FMul(vy1, 998)]
        cell == CellUnder(moved, motionBuffer, motionWidth, motionHeight)
        strength == (cell * 1000) \div 255
    IN  IF cell > P.motionThreshold
        THEN [moved EXCEPT !.vy = FMul(FMul(Abs(moved.vy), P.bounceDamping),
                                       500 + FMul(strength, 500)),
                           !.vx = moved.vx + FMul(((r - 500) * 800) \div 1000, strength),
                           !.y = p.y + 15,
                           !.heat = Min2(1000, p.heat + 200),
                           !.alpha = FMul(p.alpha, 750),
                           !.bounces = p.bounces + 1]
        ELSE moved

\* cooling and the deactivation test that end the loop body
SparkRainSettle(p, dt) ==
    LET q == [p EXCEPT !.heat = Max2(100, p.heat - dt \div 10)]
    IN  IF q.y < -150 \/ q.x < -150 \/ q.x > 1150 \/ q.bounces > 5
           \/ q.alpha < 50 \/ q.age > q.maxAge
        THEN [q EXCEPT !.active = FALSE]
        ELSE q

RECURSIVE SparkRainLoop(_, _, _, _, _, _, _)
SparkRainLoop(P, i, dt, motionBuffer, motionWidth, motionHeight, r) ==
    IF i > P.maxParticles THEN P
    ELSE IF ~P.particles[i].active
         THEN SparkRainLoop(P, i + 1, dt, motionBuffer, motionWidth, motionHeight, r)
    ELSE LET p == P.particles[i]
             hitp == SparkRainImpact(P, p, dt, motionBuffer, motionWidth, motionHeight, r)
             bounced == hitp.bounces # p.bounces
             P1 == [P EXCEPT !.particles[i] = hitp]
             P2 == IF bounced /\ hitp.bounces = 1 /\ r < 400
                   THEN SpawnTrails(P1, hitp, 2, r)
                   ELSE P1
             q == SparkRainSettle(hitp, dt)
         IN  SparkRainLoop([P2 EXCEPT !.particles[i] = q,
                                      !.activeCount = IF q.active THEN @ + 1 ELSE @],
                           i + 1, dt, motionBuffer, motionWidth, motionHeight, r)

SparkRainUpdate(P, dt, motionBuffer, motionWidth, motionHeight, r) ==
    LET spawned == SpawnByRate(P, dt, r)
        burst == IF r < 20 THEN SpawnBurst(spawned, 15 + FMul(r, 20), r) ELSE spawned
    IN  UpdateBuffers(SparkRainLoop([burst EXCEPT !.activeCount = 0],
                                    1, dt, motionBuffer, motionWidth, motionHeight, r))

(***************************************************************************)
(* ConfettiParticleSystem: its pool, spawnConfetti and clear. The paper     *)
(* physics of its update follows further down.                              *)
(***************************************************************************)
\* |cos a| for a in thousandths of a radian, by the series of the cosine
AbsCos(a) ==
    LET m == Abs(a) % 3142
        x == IF m > 1571 THEN 3142 - m ELSE m
        x2 == FMul(x, x)
        x4 == FMul(x2, x2)
    IN  Max2(0, 1000 - x2 \div 2 + x4 \div 24 - FMul(x4, x2) \div 720)

NewConfettiSystem(max) ==
    [kind |-> "confetti", maxParticles |-> max, activeCount |-> 0,
     spawnRate |-> 160, motionThreshold |-> 30,
     particles |-> [i \in 1..max |->
                      [x |-> 0, y |-> 0, vx |-> 0, vy |-> 0, size |-> 1000,
                       alpha |-> 1000, hue |-> 0, pitch |-> 0, pitchVel |-> 0,
                       yaw |-> 0, yawVel |-> 0, flatness |-> 1000,
                       aspectRatio |-> 3000, dragCoeff |-> 1000, mass |-> 1000,
                       age |-> 0, maxAge |-> 5000, bounces |-> 0, active |-> FALSE]],
     nextFreeSlot |-> 0, spawnAccumulator |-> 0, time |-> 0, drawRange |-> 0,
     visible |-> TRUE]

\* spawnConfetti (x = -1: no x given, anywhere along the top)
SpawnConfetti(P, x, r) ==
    LET idx == FindInactiveParticle(P)
        pitch == FMul(r, 6283)
    IN  IF idx = -1 THEN P
        ELSE TakeSlot(P, idx,
               [x |-> IF x # -1 THEN x ELSE r,
                y |-> 1020 + FMul(r, 100),
                vx |-> ((r - 500) * 60) \div 1000,
                vy |-> -60 - FMul(r, 80),
                pitch |-> pitch,
                pitchVel |-> (r - 500) * 3,
                yaw |-> FMul(r, 6283),
                yawVel |-> ((r - 500) * 1500) \div 1000,
                flatness |-> AbsCos(pitch),
                aspectRatio |-> 3000,
                size |-> 1200,
                maxAge |-> 6000 + 2 * r,
                dragCoeff |-> 800 + FMul(r, 400),
                mass |-> 800 + FMul(r, 400),
                hue |-> IF r < 500 THEN 0 ELSE 1000,
                alpha |-> 900 + FMul(r, 100),
                age |-> 0, bounces |-> 0, active |-> TRUE])

\* spawnBurst of the confetti system: count pieces spread around a centre
RECURSIVE ConfettiBurst(_, _, _, _)
ConfettiBurst(P, count, x, r) ==
    LET centerX == IF x # -1 THEN x ELSE r
        spreadX == centerX + ((r - 500) * 200) \div 1000
    IN  IF count = 0 \/ FindInactiveParticle(P) = -1 THEN P
        ELSE ConfettiBurst(SpawnConfetti(P, Max2(0, Min2(1000, spreadX)), r),
                           count - 1, x, r)

\* setSpawnRate clamps the rate to the system's range
SetSpawnRate(P, rate) ==
    [P EXCEPT !.spawnRate = IF P.kind = "bubble" THEN Max2(1, Min2(100, rate))
                            ELSE Max2(10, Min2(500, rate))]

(***************************************************************************)
(* The configuration setters. Their arguments are numbers in thousandths;   *)
(* the pool sizes are whole particles, between MinParticles and             *)
(* MaxParticles.                                                            *)
(***************************************************************************)
\* the % of JavaScript: the remainder has the sign of the dividend
JsRem(a, n) == IF a >= 0 THEN a % n ELSE -((-a) % n)

SetDensity(P, value) == [P EXCEPT !.density = Max2(250, Min2(2000, value))]

AdjustDensity(P, delta) == SetDensity(P, P.density + delta)

SetColorMode(P, mode) == [P EXCEPT !.colorMode = (JsRem(mode, 3000) + 3000) % 3000]

SetSizeMultiplier(P, value) == [P EXCEPT !.sizeMultiplier = Max2(100, Min2(4000, value))]

\* the pool is resized and its particles stay where they fit
SetMaxParticlesKeep(P, newMax) ==
    LET clamped == Max2(MinParticles, Min2(MaxParticles, newMax))
    IN  UpdateBuffers(
          [P EXCEPT !.maxParticles = clamped,
                    !.particles = [i \in 1..clamped |->
                                     IF i <= P.maxParticles THEN P.particles[i]
                                     ELSE SparkInitParticle]])

SetMaxParticles(P, newMax) ==
    LET clamped == Max2(MinParticles, Min2(MaxParticles, newMax))
    IN  IF clamped = P.maxParticles THEN P
        ELSE UpdateBuffers(
               [P EXCEPT !.activeCount = 0, !.nextFreeSlot = 0,
                         !.maxParticles = clamped,
                         !.particles = [i \in 1..clamped |-> SparkInitParticle]])

SetBeatThreshold(a, threshold) ==
    [a EXCEPT !.beatThreshold = Max2(1000, Min2(2000, threshold))]

SetBeatCooldown(a, cooldown) == [a EXCEPT !.beatCooldown = Max2(0, cooldown)]

SetSmoothingFactor(a, factor) == [a EXCEPT !.smoothingFactor = Max2(0, Min2(1000, factor))]

(***************************************************************************)
(* AudioAnalyzer.  A null object is NullRec, a null array is NoBuffer.      *)
(* A getter returns [a, threw, value, beat]: the analyser after the call,   *)
(* whether the call threw, and the number or the flag it returned.          *)
(***************************************************************************)
NullRec == [null |-> TRUE]
Infinity == 1000000000
\* audioContext.sampleRate / 2
Nyquist == 24000
\* Date.now() when the page loads
StartTime == 1000000

\* the byte levels of a quiet and of a loud frame; every bin carries the level
Quiet == 51
Spike == 204
Flat(level) == [i \in 1..BinCount |-> level]

NewAudioAnalyzer ==
    [hasContext |-> FALSE, hasAnalyser |-> FALSE, hasSource |-> FALSE,
     frequencyData |-> NoBuffer, frequencyBinMap |-> NullRec,
     energyHistory |-> << >>, energyHistoryLength |-> 43,
     beatThreshold |-> 1300, lastBeatTime |-> 0, beatCooldown |-> 100,
     beatDetected |-> FALSE,
     minEnergy |-> Infinity, maxEnergy |-> -Infinity, adaptiveGain |-> TRUE,
     smoothingFactor |-> 700,
     previous |-> [bass |-> 0, mid |-> 0, treble |-> 0, average |-> 0],
     isInitialized |-> FALSE]

BuildFrequencyBinMap(binCount) ==
    LET bassEnd == (250 * binCount) \div Nyquist
        midEnd == (4000 * binCount) \div Nyquist
    IN  [bass |-> [start |-> (20 * binCount) \div Nyquist, end |-> bassEnd],
         mid |-> [start |-> bassEnd, end |-> midEnd],
         treble |-> [start |-> midEnd,
                     end |-> Min2((20000 * binCount) \div Nyquist, binCount - 1)]]

\* init(sourceType): outcome "granted" and "denied" are the two ends of
\* getUserMedia for a microphone, "file" is a source type without a stream
Init(a, outcome) ==
    IF a.isInitialized THEN a
    ELSE [a EXCEPT !.hasContext = TRUE, !.hasAnalyser = TRUE,
                   !.frequencyData = Flat(0),
                   !.frequencyBinMap = BuildFrequencyBinMap(BinCount),
                   !.hasSource = IF outcome = "granted" THEN TRUE ELSE @,
                   !.isInitialized = (outcome # "denied")]

Destroy(a) ==
    [a EXCEPT !.hasSource = FALSE, !.hasAnalyser = FALSE, !.hasContext = FALSE,
              !.frequencyData = NoBuffer, !.energyHistory = << >>,
              !.isInitialized = FALSE]

\* getFrequencyData: without an analyser a fresh zero array is returned and
\* nothing is stored; an analyser without a source delivers silence
GetFrequencyData(a, frame) ==
    IF ~a.hasAnalyser THEN a
    ELSE [a EXCEPT !.frequencyData = IF a.hasSource THEN frame ELSE Flat(0)]

RECURSIVE SumBins(_, _, _)
SumBins(data, from, to) ==
    IF from > to THEN 0 ELSE data[from + 1] + SumBins(data, from + 1, to)

\* _getFrequencyRangeEnergy: the mean of the bins startBin..endBin, both included
GetFrequencyRangeEnergy(a, startBin, endBin) ==
    LET count == endBin - startBin + 1
    IN  IF count > 0 THEN (SumBins(a.frequencyData, startBin, endBin) * 1000) \div (count * 255)
        ELSE 0

\* _normalize: the analyser with the tracked range updated, and the result
Normalize(a, value) ==
    LET lo == Min2(a.minEnergy, value)
        hi == Max2(a.maxEnergy, value)
        middle == (lo + hi) \div 2
        lo2 == FMul(lo, 999) + FMul(middle, 1)
        hi2 == FMul(hi, 999) + FMul(middle, 1)
        range == hi2 - lo2
    IN  IF ~a.adaptiveGain THEN [a |-> a, value |-> Max2(0, Min2(1000, value))]
        ELSE [a |-> [a EXCEPT !.minEnergy = lo2, !.maxEnergy = hi2],
              value |-> IF range < 1 THEN value
                        ELSE Max2(0, Min2(1000, ((value - lo2) * 1000) \div range))]

\* setAdaptiveGain: switching it off resets the tracked range
SetAdaptiveGain(a, enabled) ==
    IF enabled THEN [a EXCEPT !.adaptiveGain = TRUE]
    ELSE [a EXCEPT !.adaptiveGain = FALSE, !.minEnergy = Infinity, !.maxEnergy = -Infinity]

Threw(a) == [a |-> a, threw |-> TRUE, value |-> 0, beat |-> FALSE]

\* previous * smoothingFactor + energy * (1 - smoothingFactor), then _normalize
Smoothed(a, band, energy) ==
    LET prev == FMul(a.previous[band], a.smoothingFactor)
                  + FMul(energy, 1000 - a.smoothingFactor)
        n == Normalize([a EXCEPT !.previous[band] = prev], prev)
    IN  [a |-> n.a, threw |-> FALSE, value |-> n.value, beat |-> FALSE]

\* getBass, getMid, getTreble: reading a field of null throws a TypeError
GetBand(a, frame, band) ==
    LET a1 == GetFrequencyData(a, frame)
    IN  IF a1.frequencyBinMap = NullRec THEN Threw(a1)
        ELSE IF a1.frequencyData = NoBuffer THEN Threw(a1)
        ELSE Smoothed(a1, band,
                      GetFrequencyRangeEnergy(a1, a1.frequencyBinMap[band].start,
                                              a1.frequencyBinMap[band].end))

GetAverageFrequency(a, frame) ==
    LET a1 == GetFrequencyData(a, frame)
    IN  IF a1.frequencyData = NoBuffer THEN Threw(a1)
        ELSE Smoothed(a1, "average",
                      (SumBins(a1.frequencyData, 0, Len(a1.frequencyData) - 1) * 1000)
                         \div (Len(a1.frequencyData) * 255))

RECURSIVE SumSeq(_)
SumSeq(q) == IF q = << >> THEN 0 ELSE Head(q) + SumSeq(Tail(q))

\* x rounded to the nearest number the arithmetic can hold, ties to even. The
\* code computes in floating point: a number keeps a fixed count of
\* significant bits, here 10 where a double keeps 53, so that ulp is the
\* spacing of the numbers around x.
RECURSIVE RoundFloat(_, _)
RoundFloat(x, ulp) ==
    IF x >= 1024 * ulp THEN RoundFloat(x, 2 * ulp)
    ELSE LET q == x \div ulp
             r == x % ulp
         IN  IF 2 * r > ulp \/ (2 * r = ulp /\ q % 2 = 1) THEN (q + 1) * ulp ELSE q * ulp

\* energyHistory.reduce((a, b) => a + b, 0): every partial sum is rounded. The
\* sum runs from the left; the sum of the left half is the start of the right
RECURSIVE FloatSumRange(_, _, _, _)
FloatSumRange(q, lo, hi, acc) ==
    IF lo = hi THEN RoundFloat(acc + q[lo], 1)
    ELSE LET mid == (lo + hi) \div 2
             left == FloatSumRange(q, lo, mid, acc)
         IN  IF left >= 0 THEN FloatSumRange(q, mid + 1, hi, left) ELSE left

FloatSum(q, acc) == IF q = << >> THEN acc ELSE FloatSumRange(q, 1, Len(q), acc)

AverageEnergyExact(history) == SumSeq(history) \div Len(history)

\* averageEnergy: the rounded sum divided by the length, rounded
AverageEnergy(history) ==
    LET sum == FloatSum(history, 0)
    IN  RoundFloat((2 * sum + Len(history)) \div (2 * Len(history)), 1)

\* a spike that arrives exactly beatCooldown ms after a beat is signalled
IsBeatInclusive(loud, elapsed, cooldown) == loud /\ elapsed >= cooldown

\* the cooldown is not applied
IsBeatNoCooldown(loud, elapsed, cooldown) == loud

\* the beat test: energy above the threshold and the cooldown passed
IsBeat(loud, elapsed, cooldown) == loud /\ elapsed > cooldown

GetBeatDetected(a, frame, t) ==
    LET a1 == GetFrequencyData(a, frame)
        m == a1.frequencyBinMap
        currentEnergy ==
            GetFrequencyRangeEnergy(a1, m.bass.start,
                                    m.mid.start + ((m.mid.end - m.mid.start) * 3) \div 10)
        pushed == Append(a1.energyHistory, currentEnergy)
        history == IF Len(pushed) > a1.energyHistoryLength THEN Tail(pushed) ELSE pushed
        loud == currentEnergy * 1000 > AverageEnergy(history) * a1.beatThreshold
        beat == IsBeat(loud, t - a1.lastBeatTime, a1.beatCooldown)
    IN  IF m = NullRec THEN Threw(a1)
        ELSE IF a1.frequencyData = NoBuffer THEN Threw(a1)
        ELSE [a |-> [a1 EXCEPT !.energyHistory = history,
                               !.beatDetected = beat,
                               !.lastBeatTime = IF beat THEN t ELSE @],
              threw |-> FALSE, value |-> 0, beat |-> beat]

\* getAudioData evaluates the getters in the order of its object literal
GetAudioData(a, frame, t) ==
    LET b == GetBand(a, frame, "bass")
        m == GetBand(b.a, frame, "mid")
        tr == GetBand(m.a, frame, "treble")
        e == GetAverageFrequency(tr.a, frame)
        bt == GetBeatDetected(e.a, frame, t)
    IN  IF b.threw THEN b
        ELSE IF m.threw THEN m
        ELSE IF tr.threw THEN tr
        ELSE IF e.threw THEN e
        ELSE IF bt.threw THEN bt
        ELSE [a |-> GetFrequencyData(bt.a, frame), threw |-> FALSE,
              value |-> Max2(Max2(b.value, m.value), Max2(tr.value, e.value)),
              beat |-> bt.beat]

(***************************************************************************)
(* The motion extractors: WebcamAnalyzer and IPhoneCameraSource.  Both keep *)
(* the fields of the frame differencing under the same names.  A frame is   *)
(* a function from the cells 1..GridW*GridH to RGB triples.                 *)
(***************************************************************************)
Black == <<0, 0, 0>>
Dim == <<17, 17, 17>>
White == <<255, 255, 255>>

\* the blob in the given colour on a black ground
FrameOf(colour) == [i \in 1..(GridW * GridH) |-> IF InBlob(i - 1) THEN colour ELSE Black]

\* the luminance stored into a Uint8ClampedArray: rounded to the nearest byte
Gray(rgb) == Min2(255, (rgb[1] * 299 + rgb[2] * 587 + rgb[3] * 114 + 500) \div 1000)

Differencing ==
    [motionIntensity |-> 0, motionCenterX |-> 500, motionCenterY |-> 500,
     motionVelocityX |-> 0, motionVelocityY |-> 0,
     captureWidth |-> GridW, captureHeight |-> GridH,
     motionThreshold |-> 15, smoothingFactor |-> 500, trailDecay |-> 920, mode |-> 0]

NoBuffers == [previousFrame |-> NoBuffer, currentFrame |-> NoBuffer, motionBuffer |-> NoBuffer]
ZeroBuffers == [previousFrame |-> ColdBuffer, currentFrame |-> ColdBuffer, motionBuffer |-> ColdBuffer]

\* r with the fields of t added or replaced
Merge(r, t) ==
    [f \in DOMAIN r \cup DOMAIN t |-> IF f \in DOMAIN t THEN t[f] ELSE r[f]]

NewWebcamAnalyzer ==
    Merge(Merge(Differencing, NoBuffers), [kind |-> "webcam", isInitialized |-> FALSE])

NewIPhoneCameraSource ==
    Merge(Merge(Differencing, NoBuffers),
          [kind |-> "iphone", isConnected |-> FALSE, hasImg |-> FALSE,
           corsEnabled |-> FALSE, connectionError |-> FALSE, phase |-> "idle"])

\* the decay grows the heat
DecayedUp(heat, trailDecay) == Min2(255, heat + 1)

\* the decay keeps the last unit of heat
DecayedCeil(heat, trailDecay) == (heat * trailDecay + 999) \div 1000

\* Math.floor(heat * trailDecay)
Decayed(heat, trailDecay) == (heat * trailDecay) \div 1000

\* the sum over the cells from i on of diff, weighted by 1, by x or by y
RECURSIVE Weighted(_, _, _, _, _)
Weighted(diff, i, n, width, by) ==
    IF i > n THEN 0
    ELSE diff[i] * (CASE by = "x" -> (i - 1) % width
                      [] by = "y" -> (i - 1) \div width
                      [] OTHER -> 1)
         + Weighted(diff, i + 1, n, width, by)

\* the frame differencing of analyzeFrame, from the buffer swap on
Analyze(s, pixels) ==
    LET n == s.captureWidth * s.captureHeight
        gray == [i \in 1..n |-> Gray(pixels[i])]
        previous == s.currentFrame
        diff == [i \in 1..n |-> Abs(gray[i] - previous[i])]
        moving == [i \in 1..n |-> IF diff[i] > s.motionThreshold THEN diff[i] ELSE 0]
        motionPixelCount == Cardinality({i \in 1..n : diff[i] > s.motionThreshold})
        totalMotion == Weighted(moving, 1, n, s.captureWidth, "1")
        weightedX == Weighted(moving, 1, n, s.captureWidth, "x")
        weightedY == Weighted(moving, 1, n, s.captureWidth, "y")
        rawIntensity == Min2(1000, (totalMotion * 25 * 1000) \div (n * 128))
        rawCenterX == (weightedX * 1000) \div (totalMotion * s.captureWidth)
        rawCenterY == (weightedY * 1000) \div (totalMotion * s.captureHeight)
        keep == s.smoothingFactor
        centred == totalMotion > 0 /\ motionPixelCount > 10
    IN  [s EXCEPT
           !.previousFrame = previous,
           !.currentFrame = gray,
           !.motionBuffer = [i \in 1..n |->
                                IF diff[i] > s.motionThreshold
                                THEN Max2(@[i], Min2(255, diff[i] * 3))
                                ELSE Decayed(@[i], s.trailDecay)],
           !.motionIntensity = FMul(@, keep) + FMul(rawIntensity, 1000 - keep),
           !.motionVelocityX =
               IF centred
               THEN FMul(@, keep) + FMul((rawCenterX - s.motionCenterX) * 15, 1000 - keep)
               ELSE FMul(@, 900),
           !.motionVelocityY =
               IF centred
               THEN FMul(@, keep) + FMul((rawCenterY - s.motionCenterY) * 15, 1000 - keep)
               ELSE FMul(@, 900),
           !.motionCenterX =
               IF centred THEN FMul(@, keep) + FMul(rawCenterX, 1000 - keep) ELSE @,
           !.motionCenterY =
               IF centred THEN FMul(@, keep) + FMul(rawCenterY, 1000 - keep) ELSE @]

\* whether analyzeFrame goes past its first test
Analyses(s) ==
    IF s.kind = "webcam" THEN s.isInitialized /\ s.mode # 0
    ELSE s.corsEnabled /\ s.hasImg /\ s.mode # 0

\* analyzeFrame: drawImage or getImageData may throw before anything is
\* stored; only IPhoneCameraSource wraps the analysis in try / catch
AnalyzeFrame(s, frame) ==
    IF ~Analyses(s) THEN [s |-> s, threw |-> FALSE]
    ELSE IF frame.throws THEN [s |-> s, threw |-> (s.kind = "webcam")]
    ELSE [s |-> Analyze(s, frame.pixels), threw |-> FALSE]

\* the motion data object of getMotionData
MotionDataOf(s) ==
    [intensity |-> s.motionIntensity,
     centerX |-> s.motionCenterX,
     centerY |-> 1000 - s.motionCenterY,
     velocityX |-> Max2(-1000, Min2(1000, s.motionVelocityX)),
     velocityY |-> Max2(-1000, Min2(1000, -s.motionVelocityY)),
     mode |-> s.mode, buffer |-> s.motionBuffer,
     width |-> s.captureWidth, height |-> s.captureHeight, from |-> s.kind]

\* the data object is put together before analyzeFrame has run
GetMotionDataEarly(s, frame) ==
    LET r == AnalyzeFrame(s, frame)
    IN  IF s.kind = "iphone" /\ (~s.corsEnabled \/ s.mode = 0)
        THEN [s |-> s, threw |-> FALSE, data |-> NullRec]
        ELSE IF r.threw THEN [s |-> r.s, threw |-> TRUE, data |-> NullRec]
        ELSE [s |-> r.s, threw |-> FALSE, data |-> MotionDataOf(s)]

\* getMotionData: [s, threw, data], data = NullRec for null
GetMotionData(s, frame) ==
    LET r == AnalyzeFrame(s, frame)
    IN  IF s.kind = "iphone" /\ (~s.corsEnabled \/ s.mode = 0)
        THEN [s |-> s, threw |-> FALSE, data |-> NullRec]
        ELSE IF r.threw THEN [s |-> r.s, threw |-> TRUE, data |-> NullRec]
        ELSE [s |-> r.s, threw |-> FALSE, data |-> MotionDataOf(r.s)]

\* the switch to Off leaves the heat, the intensity and the velocity as they were
CycleModeNoClear(s) ==
    IF s.kind = "iphone" /\ ~s.corsEnabled THEN s
    ELSE [s EXCEPT !.mode = (s.mode + 1) % 4]

\* the mode cycles whether or not the pixels can be read
CycleModeUnguarded(s) == [s EXCEPT !.mode = (s.mode + 1) % 4]

CycleMode(s) ==
    LET mode == (s.mode + 1) % 4
    IN  IF s.kind = "iphone" /\ ~s.corsEnabled THEN s
        ELSE IF mode = 0 /\ s.motionBuffer # NoBuffer
        THEN [s EXCEPT !.mode = mode,
                       !.motionBuffer = [i \in DOMAIN s.motionBuffer |-> 0],
                       !.motionIntensity = 0,
                       !.motionVelocityX = 0, !.motionVelocityY = 0]
        ELSE [s EXCEPT !.mode = mode]

\* WebcamAnalyzer.init: the buffers are allocated before the camera is asked for
WebcamInit(s, granted) ==
    IF s.isInitialized THEN s
    ELSE [Merge(s, ZeroBuffers) EXCEPT !.isInitialized = granted]

\* the fallback of connect: a plain image, display only
DirectFallback(s) ==
    [s EXCEPT !.corsEnabled = FALSE, !.hasImg = TRUE, !.phase = "direct"]

Disconnect(s) ==
    [Merge(Merge(s, NoBuffers), Differencing) EXCEPT
        !.hasImg = FALSE, !.isConnected = FALSE, !.corsEnabled = FALSE,
        !.connectionError = FALSE]

\* WebcamAnalyzer.destroy, IPhoneCameraSource.destroy
SourceDestroy(s) ==
    IF s.kind = "iphone" THEN Disconnect(s)
    ELSE [Merge(s, NoBuffers) EXCEPT !.isInitialized = FALSE]

\* connect, up to its first await
ConnectStart(s, hasElectron) ==
    LET s1 == [(IF s.isConnected THEN Disconnect(s) ELSE s) EXCEPT !.connectionError = FALSE]
    IN  IF hasElectron THEN [s1 EXCEPT !.phase = "proxyStart"] ELSE DirectFallback(s1)

\* startMjpegProxy has answered
ProxyStarted(s, success) ==
    IF success THEN [s EXCEPT !.phase = "proxyProbe"] ELSE DirectFallback(s)

\* a probe that hands the image over and leaves the source unconnected
ProxyProbedUnconnected(s, works) ==
    IF works
    THEN [Merge(s, ZeroBuffers) EXCEPT !.corsEnabled = TRUE, !.hasImg = TRUE, !.phase = "idle"]
    ELSE [s EXCEPT !.phase = "proxyStop"]

\* the probe image has loaded (works) or has failed or timed out
ProxyProbed(s, works) ==
    IF works
    THEN [Merge(s, ZeroBuffers) EXCEPT !.corsEnabled = TRUE, !.hasImg = TRUE,
                                       !.isConnected = TRUE, !.phase = "idle"]
    ELSE [s EXCEPT !.phase = "proxyStop"]

\* stopMjpegProxy has answered, after a probe that failed
ProxyStopped(s) == DirectFallback(s)

\* the direct image has loaded, has failed, or the 10 s timer has fired
DirectSettled(s, outcome) ==
    IF outcome = "load" THEN [s EXCEPT !.isConnected = TRUE, !.phase = "idle"]
    ELSE [s EXCEPT !.connectionError = TRUE, !.phase = "idle"]

IsStreaming(s) == s.isConnected /\ s.hasImg

\* imgElement.onload of the direct connection, fired after the 10 s timer has
\* rejected: clearTimeout and resolve do nothing any more
LateLoad(s) == [s EXCEPT !.isConnected = TRUE]

(***************************************************************************)
(* The renderer process: index.js with its visualizer, its audio analyser,  *)
(* its webcam analyser and the iPhone sources it has created.               *)
(***************************************************************************)
\* the index of each scene in the shader list
Scenes == 11
MotionPaint == 7
IPhoneCamera == 9
BubbleRain == 10

\* the fixed time step the visualizer hands to its particle systems, in ms
FrameDt == 16

\* a || b of two numbers
OrElse(a, b) == IF a = 0 THEN b ELSE a

\* update: a texture's array takes the head of the source, and keeps its tail
PublishTexture(data, buffer) ==
    IF Len(buffer) > 0
    THEN [i \in DOMAIN data |-> IF i <= Len(buffer) THEN buffer[i] ELSE data[i]]
    ELSE data

\* update: the spectrum array takes the head of the source, and zeros after it
PublishSpectrum(data, spectrum) ==
    IF Len(spectrum) > 0
    THEN [i \in DOMAIN data |-> IF i <= Len(spectrum) THEN spectrum[i] ELSE 0]
    ELSE data

NewVisualizer ==
    [currentSceneIndex |-> 0,
     spectrumData |-> [i \in 1..BinCount |-> 0],
     sparkSystem |-> NewSparkSystem(PoolSize),
     bubbleSystem |-> NewBubbleSystem(PoolSize),
     uMotionIntensity |-> 0, uMotionMode |-> 0,
     uMotionCenter |-> <<500, 500>>, uMotionVelocity |-> <<0, 0>>,
     motionData |-> ColdBuffer, uIPhoneCORSEnabled |-> FALSE,
     uTime |-> 0, uBeat |-> 0, beatDecay |-> 950,
     pingPongTargets |-> << >>, currentTargetIndex |-> 0, uPrevFrame |-> "none",
     bufferWidth |-> 1]

(***************************************************************************)
(* The ping-pong targets of Motion Paint. A target holds "new" (just        *)
(* created), "clear", "paint" (accumulated since Motion Paint was last      *)
(* entered) or "old" (accumulated before that); pingPongTargets is << >>    *)
(* for null, and uPrevFrame is what the last accumulation render read.      *)
(***************************************************************************)
ClearPingPongTargets(v) ==
    IF v.pingPongTargets # << >>
    THEN [v EXCEPT !.pingPongTargets = <<"clear", "clear">>]
    ELSE v

\* the paint on the targets is from before this entry into the scene
Aged(v) ==
    [v EXCEPT !.pingPongTargets =
                 [i \in DOMAIN @ |-> IF @[i] = "paint" THEN "old" ELSE @[i]]]

\* entering Motion Paint leaves the targets as they are
LoadShaderNoClear(v) ==
    IF v.currentSceneIndex = MotionPaint THEN Aged(v) ELSE v

LoadShader(v) ==
    IF v.currentSceneIndex = MotionPaint THEN ClearPingPongTargets(Aged(v)) ELSE v

\* Visualizer.render
VisualizerRender(v) ==
    IF v.currentSceneIndex = MotionPaint
    THEN LET w == IF v.pingPongTargets = << >>
                  THEN ClearPingPongTargets([v EXCEPT !.pingPongTargets = <<"new", "new">>])
                  ELSE v
             prev == w.currentTargetIndex + 1
             next == (1 - w.currentTargetIndex) + 1
         IN  [w EXCEPT !.uPrevFrame = w.pingPongTargets[prev],
                       !.pingPongTargets[next] = "paint",
                       !.currentTargetIndex = 1 - @]
    ELSE v

\* handleResize, with the width the canvas is displayed at
HandleResize(v, displayWidth) ==
    LET needResize == v.bufferWidth # displayWidth
        sized == [v EXCEPT !.bufferWidth = displayWidth]
    IN  IF needResize /\ v.pingPongTargets # << >>
        THEN ClearPingPongTargets([sized EXCEPT !.pingPongTargets = <<"new", "new">>])
        ELSE sized

NextScene(v) == LoadShader([v EXCEPT !.currentSceneIndex = (@ + 1) % Scenes])
PrevScene(v) == LoadShader([v EXCEPT !.currentSceneIndex = (@ - 1 + Scenes) % Scenes])
SetScene(v, index) ==
    IF index >= 0 /\ index < Scenes
    THEN LoadShader([v EXCEPT !.currentSceneIndex = index])
    ELSE v

\* Visualizer.update, the motion uniforms and the particle systems
VisualizerUpdate(v, motionData, tape, r) ==
    IF motionData # NullRec /\ motionData.mode > 0
    THEN [v EXCEPT
            !.uMotionIntensity = motionData.intensity,
            !.uMotionCenter = <<OrElse(motionData.centerX, 500), OrElse(motionData.centerY, 500)>>,
            !.uMotionVelocity = <<motionData.velocityX, motionData.velocityY>>,
            !.uMotionMode = motionData.mode,
            !.motionData = PublishTexture(@, motionData.buffer),
            !.sparkSystem =
                IF motionData.mode = 3
                THEN [SparkUpdate(SpawnFromMotion(@, motionData.buffer, motionData.width,
                                                  motionData.height, motionData.velocityX,
                                                  motionData.velocityY, motionData.intensity,
                                                  tape),
                                  FrameDt)
                        EXCEPT !.visible = TRUE]
                ELSE [@ EXCEPT !.visible = FALSE],
            !.bubbleSystem =
                IF v.currentSceneIndex = BubbleRain
                THEN [BubbleUpdate(@, FrameDt, motionData.buffer, motionData.width,
                                   motionData.height, r)
                        EXCEPT !.visible = TRUE]
                ELSE [@ EXCEPT !.visible = FALSE]]
    ELSE [v EXCEPT
            !.uMotionIntensity = FMul(@, 900),
            !.uMotionMode = 0,
            !.sparkSystem =
                IF @.activeCount > 0 THEN SparkUpdate(@, FrameDt)
                ELSE [@ EXCEPT !.visible = FALSE],
            !.bubbleSystem =
                IF v.currentSceneIndex = BubbleRain
                THEN [BubbleUpdate(@, FrameDt, NoBuffer, 0, 0, r) EXCEPT !.visible = TRUE]
                ELSE [@ EXCEPT !.visible = FALSE]]

\* updateIPhoneTextureFromMotionData: displayFrameBuffer is allocated and
\* released together with the motion buffer
UpdateIPhoneTextureFromMotionData(v, iphoneMotionData) ==
    IF iphoneMotionData = NullRec \/ iphoneMotionData.buffer = NoBuffer THEN v
    ELSE [v EXCEPT !.uIPhoneCORSEnabled = TRUE]

\* the beat flash never decays
UpdateTimeAndBeatHeld(v, beat) ==
    [v EXCEPT !.uTime = @ + 16,
              !.uBeat = IF beat THEN 1000 ELSE @]

\* update, the time and the beat flash: uTime in ms, uBeat in thousandths
UpdateTimeAndBeat(v, beat) ==
    [v EXCEPT !.uTime = @ + 16,
              !.uBeat = IF beat THEN 1000 ELSE FMul(@, v.beatDecay)]

\* update, the spectrum texture
UpdateSpectrum(v, spectrum) == [v EXCEPT !.spectrumData = PublishSpectrum(@, spectrum)]

\* isActive of IPhoneCameraSource
IsActive(s) == s.corsEnabled /\ s.mode > 0

\* render asks both sources in one tick
MotionSourcesBoth(scene, hasIPhone, ip, hasWebcam) ==
    (IF scene = IPhoneCamera /\ hasIPhone /\ ip.corsEnabled /\ IsActive(ip)
     THEN {"iphone"} ELSE {})
    \cup (IF hasWebcam THEN {"webcam"} ELSE {})

\* render: the sources whose getMotionData is called in a tick
MotionSources(scene, hasIPhone, ip, hasWebcam) ==
    IF scene = IPhoneCamera /\ hasIPhone /\ ip.corsEnabled /\ IsActive(ip)
    THEN {"iphone"}
    ELSE IF hasWebcam THEN {"webcam"}
    ELSE {}

\* what the last render call did
\* what a render call did: the sources asked, the one whose data was used,
\* whether the frame analysis threw, and the calls made, in their order
NoTick ==
    [called |-> {}, from |-> "none", frameThrew |-> FALSE, ran |-> FALSE, order |-> << >>]

(***************************************************************************)
(* render, on the state st = [wa, src, ips, viz, app, au, t, tick] of the   *)
(* process: wa the webcamAnalyzer and src the iphoneSource (NullRec for     *)
(* null), ips the sources let go of while their connect is pending.         *)
(* An exception leaves render before requestAnimationFrame is called.       *)
(***************************************************************************)
Render(st, frame, tape, r) ==
    LET ip == st.src
        called == MotionSources(st.viz.currentSceneIndex, ip # NullRec, ip, st.wa # NullRec)
        Answered(sound, fromIPhone, fromWebcam) ==
            LET motionData == IF "iphone" \in called THEN fromIPhone.data ELSE fromWebcam.data
                asked == [st EXCEPT
                            !.au = sound.a,
                            !.src = fromIPhone.s,
                            !.wa = fromWebcam.s,
                            !.tick = [called |-> called,
                                      from |-> IF motionData = NullRec THEN "none"
                                               ELSE motionData.from,
                                      frameThrew |-> frame.throws /\
                                                       \/ "iphone" \in called /\ Analyses(ip)
                                                       \/ "webcam" \in called /\ Analyses(st.wa),
                                      ran |-> TRUE,
                                      order |-> (IF st.app.hasAudio
                                                 THEN <<"getAudioData">> ELSE << >>)
                                                \o (IF called # {}
                                                    THEN <<"getMotionData">> ELSE << >>)]]
            IN  IF sound.threw
                THEN [st EXCEPT !.au = sound.a, !.app.loop = "stopped",
                                !.tick = [NoTick EXCEPT !.ran = TRUE,
                                                        !.order = <<"getAudioData">>]]
                ELSE IF fromIPhone.threw \/ fromWebcam.threw
                THEN [asked EXCEPT !.app.loop = "stopped"]
                ELSE [asked EXCEPT !.viz = VisualizerRender(
                                              VisualizerUpdate(
                                                 UpdateTimeAndBeat(
                                                    IF "iphone" \in called
                                                    THEN UpdateIPhoneTextureFromMotionData(
                                                            @, motionData)
                                                    ELSE @,
                                                    sound.beat),
                                                 motionData, tape, r)),
                                   !.tick.order = @ \o <<"update", "render">>,
                                   !.app.loop = "scheduled"]
    IN  IF st.app.isPaused THEN [st EXCEPT !.app.loop = "scheduled", !.tick = NoTick]
        ELSE \* each call is made once: its result is bound before it is used
             CHOOSE out \in
                {Answered(sound, fromIPhone, fromWebcam) :
                    sound \in {IF st.app.hasAudio
                               THEN GetAudioData(st.au, Flat(Quiet), st.t)
                               ELSE [a |-> st.au, threw |-> FALSE, value |-> 0, beat |-> FALSE]},
                    fromIPhone \in {IF "iphone" \in called THEN GetMotionData(ip, frame)
                                    ELSE [s |-> ip, threw |-> FALSE, data |-> NullRec]},
                    fromWebcam \in {IF "webcam" \in called THEN GetMotionData(st.wa, frame)
                                    ELSE [s |-> st.wa, threw |-> FALSE, data |-> NullRec]}} : TRUE

\* a source index.js no longer refers to: kept while its connect is pending
LetGo(st) ==
    IF st.src # NullRec /\ st.src.phase # "idle"
    THEN [st EXCEPT !.ips = Append(@, st.src), !.src = NullRec]
    ELSE [st EXCEPT !.src = NullRec]

\* the code after await iphoneSource.connect(url) in connectIPhone, and its catch
ConnectSettled(st, resolved) ==
    IF ~resolved THEN LetGo([st EXCEPT !.app.connectDisabled = FALSE])
    ELSE IF st.src = NullRec
    THEN [st EXCEPT !.app.modalVisible = FALSE, !.app.connectDisabled = FALSE]
    ELSE [st EXCEPT !.app.modalVisible = FALSE,
                    !.viz.uIPhoneCORSEnabled = st.src.corsEnabled]

\* connectIPhone, up to the first await of connect
ConnectIPhone(st) ==
    LET gone == IF st.src = NullRec THEN st ELSE LetGo([st EXCEPT !.src = Disconnect(@)])
    IN  [gone EXCEPT !.app.connectDisabled = TRUE,
                     !.src = ConnectStart(NewIPhoneCameraSource, TRUE)]

DisconnectIPhone(st) ==
    IF st.src = NullRec THEN [st EXCEPT !.viz.uIPhoneCORSEnabled = FALSE]
    ELSE LetGo([st EXCEPT !.src = Disconnect(@), !.viz.uIPhoneCORSEnabled = FALSE])

\* handleKeyPress, the keys that change the motion pipeline
HandleKeyPress(st, key) ==
    CASE key = "ArrowLeft" -> [st EXCEPT !.viz = PrevScene(@)]
      [] key = "ArrowRight" -> [st EXCEPT !.viz = NextScene(@)]
      [] key = " " -> [st EXCEPT !.app.isPaused = ~@]
      [] key = "c" ->
           IF st.viz.currentSceneIndex = IPhoneCamera /\ st.src # NullRec
              /\ st.src.corsEnabled
           THEN [st EXCEPT !.src = CycleMode(@)]
           ELSE IF st.wa # NullRec THEN [st EXCEPT !.wa = CycleMode(@)]
           ELSE st
      [] key = "i" ->
           IF ~st.app.modalVisible
           THEN [st EXCEPT !.app.modalVisible = TRUE, !.app.connectDisabled = FALSE]
           ELSE st
      [] key = "d" -> IF st.src # NullRec THEN DisconnectIPhone(st) ELSE st
      [] key \in {"1", "9"} -> [st EXCEPT !.viz = SetScene(@, IF key = "1" THEN 0 ELSE 8)]
      [] OTHER -> st

\* the frames a camera can deliver: dark, the bright blob, and one that throws
DarkFrame == [throws |-> FALSE, pixels |-> FrameOf(Black)]
AppFrames ==
    {DarkFrame, [throws |-> FALSE, pixels |-> FrameOf(White)],
     [throws |-> TRUE, pixels |-> FrameOf(Black)]}

\* the random samples of a spawnFromMotion call: all cold, or the blob's edge
MissTape == [p |-> 0, q |-> 0, n |-> 1, r |-> 5]
AppTapes == {MissTape, [p |-> (GridH - 1) * GridW + GridW \div 2, q |-> 0, n |-> 1, r |-> 5]}

\* the source render will ask in state st, NullRec for none
Asked(st) ==
    LET called == MotionSources(st.viz.currentSceneIndex, st.src # NullRec, st.src,
                                st.wa # NullRec)
    IN  IF "iphone" \in called THEN st.src
        ELSE IF "webcam" \in called THEN st.wa
        ELSE NullRec

\* the inputs that can make a difference to a render call in state st
RenderInputs(st) ==
    LET s == Asked(st)
        analyses == s # NullRec /\ Analyses(s) /\ ~st.app.isPaused
    IN  [frame : IF analyses THEN AppFrames ELSE {DarkFrame},
         tape : IF analyses /\ s.mode = 3 THEN AppTapes ELSE {MissTape},
         r : IF st.viz.currentSceneIndex = BubbleRain /\ ~st.app.isPaused
             THEN Rand ELSE {5}]

AppFresh ==
    /\ webcamAnalyzer = NullRec
    /\ iphoneSource = NullRec
    /\ orphans = << >>
    /\ visualizer = NullRec
    /\ app = [boot |-> "audio", hasAudio |-> FALSE, isPaused |-> FALSE,
              modalVisible |-> FALSE, connectDisabled |-> FALSE, loop |-> "off"]
    /\ tick = NoTick
    /\ steps = 0

(***************************************************************************)
(* A stand-alone particle system driven through its public methods.         *)
(***************************************************************************)
SampleTapes == [p : SamplePixels, q : SamplePixels, n : {1, 2}, r : Rand]

\* the arguments of a spawnFromMotion call: one for each early return, and
\* a moving blob with every tape of samples
SpawnArgs ==
    {[buffer |-> NoBuffer, velX |-> -625, intensity |-> 500, tape |-> t] :
        t \in {[p |-> 0, q |-> 0, n |-> 1, r |-> 5]}}
    \cup {[buffer |-> BlobBuffer, velX |-> -625, intensity |-> 0, tape |-> t] :
        t \in {[p |-> 0, q |-> 0, n |-> 1, r |-> 5]}}
    \cup {[buffer |-> BlobBuffer, velX |-> 0, intensity |-> 500, tape |-> t] :
        t \in {[p |-> 0, q |-> 0, n |-> 1, r |-> 5]}}
    \cup {[buffer |-> BlobBuffer, velX |-> -625, intensity |-> 500, tape |-> t] :
        t \in SampleTapes}

PoolFresh ==
    /\ pool = NewSparkSystem(PoolSize)
    /\ poolOp = "new"
    /\ poolOps = 0

AudioFresh ==
    /\ audio = NewAudioAnalyzer
    /\ now = StartTime
    /\ audioOut = [op |-> "new", threw |-> FALSE, value |-> 0, beat |-> FALSE]
    /\ audioCalls = 0
    /\ beatLog = << >>

CamFresh ==
    /\ cam = NewWebcamAnalyzer
    /\ camOp = [op |-> "new", analysed |-> FALSE, cooled |-> FALSE]
    /\ camSeen = [frames |-> 0, last |-> << >>, moves |-> 0, gone |-> FALSE]

\* every object as its constructor leaves it
Fresh == PoolFresh /\ AudioFresh /\ CamFresh /\ AppFresh

PoolInit ==
    /\ AudioFresh
    /\ CamFresh
    /\ AppFresh
    /\ pool \in {NewSparkSystem(PoolSize), NewBubbleSystem(PoolSize)}
                  \cup {NewSparkRainSystem(PoolSize, r) : r \in Rand}
    /\ poolOp = "new"
    /\ poolOps = 0

PoolSpawnFromMotion ==
    /\ poolOps < MaxPoolOps
    /\ pool.kind = "spark"
    /\ \E a \in SpawnArgs :
          pool' = SpawnFromMotion(pool, a.buffer, GridW, GridH, a.velX, 0,
                                  a.intensity, a.tape)
    /\ poolOp' = "spawnFromMotion"
    /\ poolOps' = poolOps + 1
    /\ UNCHANGED <<audioVars, camVars, appVars>>

PoolSpawnParticle ==
    /\ poolOps < MaxPoolOps
    /\ pool.kind \in {"bubble", "sparkrain"}
    /\ \E r \in Rand : pool' = SpawnOne(pool, r)
    /\ poolOp' = "spawn"
    /\ poolOps' = poolOps + 1
    /\ UNCHANGED <<audioVars, camVars, appVars>>

PoolUpdate ==
    /\ poolOps < MaxPoolOps
    /\ \E r \in Rand, mb \in {NoBuffer, BlobBuffer, HotBuffer} :
          pool' = CASE pool.kind = "spark" -> SparkUpdate(pool, TickMs)
                    [] pool.kind = "bubble" ->
                         BubbleUpdate(pool, TickMs, mb, GridW, GridH, r)
                    [] pool.kind = "sparkrain" ->
                         SparkRainUpdate(pool, TickMs, mb, GridW, GridH, r)
    /\ poolOp' = "update"
    /\ poolOps' = poolOps + 1
    /\ UNCHANGED <<audioVars, camVars, appVars>>

PoolClear ==
    /\ poolOps < MaxPoolOps
    /\ pool' = Clear(pool)
    /\ poolOp' = "clear"
    /\ poolOps' = poolOps + 1
    /\ UNCHANGED <<audioVars, camVars, appVars>>

PoolSetSpawnRate ==
    /\ poolOps < MaxPoolOps
    /\ pool.kind \in {"bubble", "sparkrain"}
    /\ \E rate \in {0, 10, 1000} : pool' = SetSpawnRate(pool, rate)
    /\ poolOp' = "setSpawnRate"
    /\ poolOps' = poolOps + 1
    /\ UNCHANGED <<audioVars, camVars, appVars>>

PoolNext ==
    \/ PoolSpawnFromMotion
    \/ PoolSpawnParticle
    \/ PoolUpdate
    \/ PoolClear
    \/ PoolSetSpawnRate

vars == <<poolVars, audioVars, camVars, appVars>>

SpecPool == PoolInit /\ [][PoolNext]_vars

(***************************************************************************)
(* C1: after every completed update the system's activeCount is the number  *)
(* of pool particles whose active flag is set, and the draw range of the    *)
(* packed render buffers equals activeCount.                                *)
(***************************************************************************)
C1_PoolInvariant ==
    poolOp = "update" =>
        /\ pool.activeCount = NumActive(pool)
        /\ pool.drawRange = pool.activeCount

(***************************************************************************)
(* The analyser through its lifecycle: init with each outcome, destroy,     *)
(* and the feature getters in every state.                                  *)
(***************************************************************************)
Outcome(op, r) == [op |-> op, threw |-> r.threw, value |-> r.value, beat |-> r.beat]
Done(op) == [op |-> op, threw |-> FALSE, value |-> 0, beat |-> FALSE]

\* a getBeatDetected call on a frame of the given level, FrameMs after the last
BeatCall(level) ==
    LET r == GetBeatDetected(audio, Flat(level), now + FrameMs)
    IN  /\ audio' = r.a
        /\ now' = now + FrameMs
        /\ audioOut' = Outcome("getBeatDetected", r)
        /\ beatLog' = Append(beatLog, [level |-> level, beat |-> r.beat, at |-> now + FrameMs])

AudioInit ==
    /\ audioCalls < MaxAudioCalls
    /\ \E outcome \in {"granted", "denied", "file"} :
          /\ audio' = Init(audio, outcome)
          /\ audioOut' = [Done("init") EXCEPT !.threw = (~audio.isInitialized /\ outcome = "denied")]
    /\ audioCalls' = audioCalls + 1
    /\ UNCHANGED <<now, beatLog, poolVars, camVars, appVars>>

AudioDestroy ==
    /\ audioCalls < MaxAudioCalls
    /\ audio' = Destroy(audio)
    /\ audioOut' = Done("destroy")
    /\ audioCalls' = audioCalls + 1
    /\ UNCHANGED <<now, beatLog, poolVars, camVars, appVars>>

AudioGetBand ==
    /\ audioCalls < MaxAudioCalls
    /\ \E band \in {"bass", "mid", "treble"}, level \in {Quiet, Spike} :
          LET r == GetBand(audio, Flat(level), band)
          IN  audio' = r.a /\ audioOut' = Outcome("getBand", r)
    /\ audioCalls' = audioCalls + 1
    /\ UNCHANGED <<now, beatLog, poolVars, camVars, appVars>>

AudioGetAverageFrequency ==
    /\ audioCalls < MaxAudioCalls
    /\ \E level \in {Quiet, Spike} :
          LET r == GetAverageFrequency(audio, Flat(level))
          IN  audio' = r.a /\ audioOut' = Outcome("getAverageFrequency", r)
    /\ audioCalls' = audioCalls + 1
    /\ UNCHANGED <<now, beatLog, poolVars, camVars, appVars>>

AudioGetBeatDetected ==
    /\ audioCalls < MaxAudioCalls
    /\ \E level \in {Quiet, Spike} : BeatCall(level)
    /\ audioCalls' = audioCalls + 1
    /\ UNCHANGED <<poolVars, camVars, appVars>>

AudioGetAudioData ==
    /\ audioCalls < MaxAudioCalls
    /\ \E level \in {Quiet, Spike} :
          LET r == GetAudioData(audio, Flat(level), now + FrameMs)
          IN  audio' = r.a /\ audioOut' = Outcome("getAudioData", r)
    /\ now' = now + FrameMs
    /\ audioCalls' = audioCalls + 1
    /\ UNCHANGED <<beatLog, poolVars, camVars, appVars>>

AudioNext ==
    \/ AudioInit
    \/ AudioDestroy
    \/ AudioGetBand
    \/ AudioGetAverageFrequency
    \/ AudioGetBeatDetected
    \/ AudioGetAudioData

SpecAudio == Fresh /\ [][AudioNext]_vars

(***************************************************************************)
(* The beat detector of an analyser listening to a microphone: one          *)
(* getBeatDetected call per frame, at most MaxSpikes of the frames loud.     *)
(***************************************************************************)
NumSpikes == Cardinality({i \in 1..Len(beatLog) : beatLog[i].level = Spike})

BeatInit ==
    /\ ~audio.isInitialized
    /\ audio' = Init(audio, "granted")
    /\ audioOut' = Done("init")
    /\ UNCHANGED <<now, audioCalls, beatLog, poolVars, camVars, appVars>>

BeatFrame ==
    /\ audio.isInitialized
    /\ Len(beatLog) < MaxBeatCalls
    /\ \E level \in {Quiet, Spike} :
          /\ level = Spike => NumSpikes < MaxSpikes
          /\ BeatCall(level)
    /\ UNCHANGED <<audioCalls, poolVars, camVars, appVars>>

BeatNext ==
    \/ BeatInit
    \/ BeatFrame

SpecBeat == Fresh /\ [][BeatNext]_vars

(***************************************************************************)
(* A motion extractor on its own: it is started, its mode is chosen, and    *)
(* it then analyses up to MaxFrames frames of a picture that may change       *)
(* during the first MovingFrames of them and holds still afterwards.        *)
(***************************************************************************)
MotionInit ==
    /\ cam \in {NewWebcamAnalyzer, NewIPhoneCameraSource}
    /\ camOp = [op |-> "new", analysed |-> FALSE, cooled |-> FALSE]
    /\ camSeen = [frames |-> 0, last |-> << >>, moves |-> 0, gone |-> FALSE]
    /\ PoolFresh
    /\ AudioFresh
    /\ AppFresh

CamStart ==
    /\ cam.kind = "webcam"
    /\ ~cam.isInitialized
    /\ ~camSeen.gone
    /\ \E granted \in BOOLEAN : cam' = WebcamInit(cam, granted)
    /\ camOp' = [op |-> "init", analysed |-> FALSE, cooled |-> FALSE]
    /\ UNCHANGED <<camSeen, poolVars, audioVars, appVars>>

CamConnect ==
    /\ cam.kind = "iphone"
    /\ ~cam.isConnected
    /\ ~camSeen.gone
    /\ \E works \in BOOLEAN, outcome \in {"load", "error"} :
          LET probed == ProxyProbed(ProxyStarted(ConnectStart(cam, TRUE), TRUE), works)
          IN  cam' = IF works THEN probed ELSE DirectSettled(ProxyStopped(probed), outcome)
    /\ camOp' = [op |-> "connect", analysed |-> FALSE, cooled |-> FALSE]
    /\ UNCHANGED <<camSeen, poolVars, audioVars, appVars>>

CamCycleMode ==
    /\ camSeen.frames = 0
    /\ cam' = CycleMode(cam)
    /\ camOp' = [op |-> "cycleMode", analysed |-> FALSE, cooled |-> FALSE]
    /\ UNCHANGED <<camSeen, poolVars, audioVars, appVars>>

CamFrame ==
    /\ camSeen.frames < MaxFrames
    /\ \E colour \in {Black, Dim, White} :
       \E r \in {GetMotionData(cam, [throws |-> FALSE, pixels |-> FrameOf(colour)])} :
          LET moved == camSeen.last # << >> /\ camSeen.last # colour
          IN  /\ moved => camSeen.frames < MovingFrames
              /\ cam' = r.s
              /\ camOp' = [op |-> "frame", analysed |-> Analyses(cam),
                           cooled |-> /\ Analyses(cam)
                                      /\ \E i \in DOMAIN cam.motionBuffer :
                                            /\ cam.motionBuffer[i] > 0
                                            /\ r.s.motionBuffer[i] = 0]
              /\ camSeen' = IF Analyses(cam)
                            THEN [camSeen EXCEPT
                                    !.frames = @ + 1, !.last = colour,
                                    !.moves = @ + (IF moved THEN 1 ELSE 0)]
                            ELSE camSeen
    /\ UNCHANGED <<poolVars, audioVars, appVars>>

\* destroy or disconnect: the end of a source
CamDestroy ==
    /\ camOp.op # "new"
    /\ camSeen.moves = 0 \/ camSeen.frames >= MovingFrames
    /\ ~camSeen.gone
    /\ cam' = SourceDestroy(cam)
    /\ camOp' = [op |-> "destroy", analysed |-> FALSE, cooled |-> FALSE]
    /\ camSeen' = [camSeen EXCEPT !.gone = TRUE]
    /\ UNCHANGED <<poolVars, audioVars, appVars>>

MotionNext ==
    \/ CamStart
    \/ CamConnect
    \/ CamCycleMode
    \/ CamFrame
    \/ CamDestroy

SpecMotion == MotionInit /\ [][MotionNext]_vars

\* a frame was analysed in this step and cell i was not refreshed by it
Undisturbed(i) ==
    /\ camSeen'.frames # camSeen.frames
    /\ Abs(cam'.currentFrame[i] - cam'.previousFrame[i]) <= cam.motionThreshold

(***************************************************************************)
(* C6: every motion-heat cell is in 0..255, and on an analysed tick a cell  *)
(* that is not refreshed (luminance difference within motionThreshold) has  *)
(* a heat not greater than before the tick.                                  *)
(***************************************************************************)
C6_HeatBoundedNonIncreasing ==
    [][\A i \in DOMAIN cam'.motionBuffer :
          /\ cam'.motionBuffer[i] \in 0..255
          /\ Undisturbed(i) => cam'.motionBuffer[i] <= cam.motionBuffer[i]]_vars

\* an undisturbed cell holds a heat strictly between the bounds, after a decay
C6_Witness ==
    /\ camOp.analysed
    /\ \E i \in DOMAIN cam.motionBuffer :
          /\ cam.currentFrame[i] = cam.previousFrame[i]
          /\ cam.motionBuffer[i] > 0
          /\ cam.motionBuffer[i] < 255

(***************************************************************************)
(* C7 as stated: an undisturbed hot cell is set to exactly previous heat x  *)
(* trailDecay on every analysed tick, so a positive heat stays positive; it *)
(* never increases.                                                          *)
(***************************************************************************)
C7_ExactDecay ==
    [][\A i \in DOMAIN cam'.motionBuffer :
          Undisturbed(i) =>
             /\ cam'.motionBuffer[i] * 1000 = cam.motionBuffer[i] * cam.trailDecay
             /\ cam.motionBuffer[i] > 0 => cam'.motionBuffer[i] > 0
             /\ cam'.motionBuffer[i] <= cam.motionBuffer[i]]_vars

(***************************************************************************)
(* C7 amended: an undisturbed hot cell is set to previous heat x trailDecay *)
(* rounded down to a whole number on every analysed tick, so a positive     *)
(* heat strictly decreases (and reaches 0 after finitely many ticks); it    *)
(* never increases.                                                          *)
(***************************************************************************)
C7_FloorDecay ==
    [][\A i \in DOMAIN cam'.motionBuffer :
          Undisturbed(i) =>
             /\ cam'.motionBuffer[i] * 1000 <= cam.motionBuffer[i] * cam.trailDecay
             /\ cam.motionBuffer[i] * cam.trailDecay < (cam'.motionBuffer[i] + 1) * 1000
             /\ cam.motionBuffer[i] > 0 => cam'.motionBuffer[i] < cam.motionBuffer[i]]_vars

\* a hot cell has cooled to exactly 0 on an undisturbed tick
C7_Witness ==
    /\ camOp.cooled
    /\ camSeen.moves = 0
    /\ \A i \in DOMAIN cam.motionBuffer : cam.motionBuffer[i] = 0

Getters == {"getBand", "getAverageFrequency", "getBeatDetected", "getAudioData"}

(***************************************************************************)
(* C3: whenever no analysis source is connected (never initialised, init    *)
(* failed, initialised without a stream, destroyed), a feature getter        *)
(* returns 0 / false and does not throw.                                     *)
(***************************************************************************)
C3_NoSourceGettersHold ==
    (audioOut.op \in Getters /\ ~audio.hasSource) =>
        /\ ~audioOut.threw
        /\ audioOut.value = 0
        /\ ~audioOut.beat

\* the energy test of the last getBeatDetected call, from the window it left
Loud(a) ==
    LET h == a.energyHistory
    IN  h[Len(h)] * Len(h) * 1000 > SumSeq(h) * a.beatThreshold

(***************************************************************************)
(* C4 as stated: a getBeatDetected call signals a beat exactly when the     *)
(* energy exceeds mean x beatThreshold and at least beatCooldown ms have     *)
(* elapsed since the previous beat, exactly beatCooldown included;           *)
(* lastBeatTime becomes the current time on a beat and is unchanged          *)
(* otherwise.                                                                *)
(***************************************************************************)
C4_BeatAtLeastCooldown ==
    [][beatLog' # beatLog =>
          /\ audioOut'.beat <=> (Loud(audio') /\ now' - audio.lastBeatTime >= audio.beatCooldown)
          /\ audio'.lastBeatTime = IF audioOut'.beat THEN now' ELSE audio.lastBeatTime]_vars

(***************************************************************************)
(* C4 amended: a getBeatDetected call signals a beat exactly when the       *)
(* energy exceeds mean x beatThreshold and more than beatCooldown ms have    *)
(* elapsed since the previous beat; lastBeatTime becomes the current time    *)
(* on a beat and is unchanged otherwise.                                     *)
(***************************************************************************)
C4_BeatAfterCooldown ==
    [][beatLog' # beatLog =>
          /\ audioOut'.beat <=> (Loud(audio') /\ now' - audio.lastBeatTime > audio.beatCooldown)
          /\ audio'.lastBeatTime = IF audioOut'.beat THEN now' ELSE audio.lastBeatTime]_vars

\* a loud frame exactly beatCooldown ms after a beat was not signalled
C4_Witness ==
    /\ Len(beatLog) >= 3
    /\ beatLog[Len(beatLog)].level = Spike
    /\ Loud(audio)
    /\ ~beatLog[Len(beatLog)].beat
    /\ now - audio.lastBeatTime = audio.beatCooldown
    /\ \E i \in 1..Len(beatLog) : beatLog[i].beat

WarmedUp ==
    /\ Len(beatLog) > audio.energyHistoryLength
    /\ \A i \in 1..audio.energyHistoryLength : beatLog[i].level = Quiet
    /\ beatLog[audio.energyHistoryLength + 1].level = Spike

(***************************************************************************)
(* C5: after 43 quiet warm-up frames and one loud frame, the loud frame is  *)
(* signalled as a beat, no quiet frame before or after it is, and a second   *)
(* equally loud frame less than beatCooldown ms after that beat is not.      *)
(***************************************************************************)
C5_OneBeatPerSpike ==
    WarmedUp =>
        LET spike == audio.energyHistoryLength + 1
        IN  /\ beatLog[spike].beat
            /\ \A i \in 1..Len(beatLog) : beatLog[i].level = Quiet => ~beatLog[i].beat
            /\ \A i \in (spike + 1)..Len(beatLog) :
                  (beatLog[i].level = Spike
                     /\ beatLog[i].at - beatLog[spike].at < audio.beatCooldown)
                  => ~beatLog[i].beat

\* the warm-up, the spike and a second spike one frame later have been heard
C5_Witness ==
    /\ WarmedUp
    /\ Len(beatLog) >= audio.energyHistoryLength + 3
    /\ beatLog[audio.energyHistoryLength + 1].beat
    /\ beatLog[audio.energyHistoryLength + 2].level = Spike
    /\ ~beatLog[audio.energyHistoryLength + 2].beat
    /\ beatLog[audio.energyHistoryLength + 3].level = Quiet

(***************************************************************************)
(* The renderer process as a state machine: init, the render loop, the      *)
(* keys, the connection dialog and the steps of a pending connect.  The     *)
(* user's actions and the animation frames after the first are at most      *)
(* MaxSteps together.                                                       *)
(***************************************************************************)
Cur ==
    [wa |-> webcamAnalyzer, src |-> iphoneSource, ips |-> orphans, viz |-> visualizer,
     app |-> app, au |-> audio, t |-> now, tick |-> tick]

Becomes(st) ==
    /\ webcamAnalyzer' = st.wa
    /\ orphans' = st.ips
    /\ iphoneSource' = st.src
    /\ visualizer' = st.viz
    /\ app' = st.app
    /\ audio' = st.au
    /\ now' = st.t
    /\ tick' = st.tick

\* steps counts the user's actions and the animation frames
Did(counts) == steps' = steps + (IF counts THEN 1 ELSE 0)

\* init, from initAudio's answer to the await of the webcam, or to the first
\* render call when there is no webcam to wait for
AppInitAudio ==
    /\ app.boot = "audio"
    /\ \E outcome \in {"none", "denied", "granted"} :
          \E st \in {[Cur EXCEPT
                          !.t = @ + FrameDt,
                          !.au = IF outcome = "none" THEN @ ELSE Init(@, outcome),
                          !.app.hasAudio = (outcome # "none"),
                          !.app.boot = IF outcome = "granted" THEN "webcam" ELSE "running",
                          !.wa = IF outcome = "granted"
                                 THEN WebcamInit(NewWebcamAnalyzer, FALSE) ELSE @,
                          !.viz = NewVisualizer]} :
             \E out \in {IF outcome = "granted" THEN st
                         ELSE Render(st, DarkFrame, MissTape, 5)} : Becomes(out)
    /\ Did(FALSE)
    /\ UNCHANGED <<poolVars, camVars, audioOut, audioCalls, beatLog>>

\* init, from the webcam's answer on: the first render call
AppInitWebcam ==
    /\ app.boot = "webcam"
    /\ \E granted \in BOOLEAN :
          \E st \in {[Cur EXCEPT
                          !.t = @ + FrameDt,
                          !.wa = IF granted THEN WebcamInit(@, TRUE) ELSE NullRec,
                          !.app.boot = "running"]} :
             \E in \in RenderInputs(st) :
                \E out \in {Render(st, in.frame, in.tape, in.r)} : Becomes(out)
    /\ Did(FALSE)
    /\ UNCHANGED <<poolVars, camVars, audioOut, audioCalls, beatLog>>

\* an animation frame, FrameDt after the last one: render
AppRender ==
    /\ app.loop = "scheduled"
    /\ steps < MaxSteps
    /\ \E st \in {[Cur EXCEPT !.t = @ + FrameDt]} :
          \E in \in RenderInputs(st) :
             \E out \in {Render(st, in.frame, in.tape, in.r)} : Becomes(out)
    /\ Did(TRUE)
    /\ UNCHANGED <<poolVars, camVars, audioOut, audioCalls, beatLog>>

Key(key) ==
    /\ visualizer # NullRec
    /\ steps < MaxSteps
    /\ \E st \in {Cur} : \E out \in {HandleKeyPress(st, key)} : Becomes(out)
    /\ Did(TRUE)
    /\ UNCHANGED <<poolVars, camVars, audioOut, audioCalls, beatLog>>

KeyArrow == Key("ArrowLeft")
KeySpace == Key(" ")
KeyC == Key("c")
KeyI == Key("i")
KeyD == Key("d")

\* the Connect button, or Enter in the URL field, with a well-formed URL
AppConnect ==
    /\ app.modalVisible
    /\ steps < MaxSteps
    /\ \E by \in {"click", "Enter"} :
          /\ by = "click" => ~app.connectDisabled
          /\ \E st \in {Cur} : \E out \in {ConnectIPhone(st)} : Becomes(out)
    /\ Did(TRUE)
    /\ UNCHANGED <<poolVars, camVars, audioOut, audioCalls, beatLog>>

\* the sources with a connect under way: 0 is iphoneSource, i is orphans[i]
Connecting(phase) ==
    {i \in 0..Len(orphans) :
        IF i = 0 THEN iphoneSource # NullRec /\ iphoneSource.phase = phase
        ELSE orphans[i].phase = phase}

Source(i) == IF i = 0 THEN iphoneSource ELSE orphans[i]

\* st with source i replaced by s; an orphan whose connect has settled is gone
With(st, i, s) ==
    IF i = 0 THEN [st EXCEPT !.src = s]
    ELSE IF s.phase = "idle"
    THEN [st EXCEPT !.ips = SubSeq(@, 1, i - 1) \o SubSeq(@, i + 1, Len(@))]
    ELSE [st EXCEPT !.ips[i] = s]

AppProxyStarted ==
    /\ \E i \in Connecting("proxyStart"), success \in BOOLEAN :
          \E out \in {With(Cur, i, ProxyStarted(Source(i), success))} : Becomes(out)
    /\ Did(FALSE)
    /\ UNCHANGED <<poolVars, camVars, audioOut, audioCalls, beatLog>>

AppProxyProbed ==
    /\ \E i \in Connecting("proxyProbe"), works \in BOOLEAN :
          \E st \in {With(Cur, i, ProxyProbed(Source(i), works))} :
             \E out \in {IF works THEN ConnectSettled(st, TRUE) ELSE st} : Becomes(out)
    /\ Did(FALSE)
    /\ UNCHANGED <<poolVars, camVars, audioOut, audioCalls, beatLog>>

AppProxyStopped ==
    /\ \E i \in Connecting("proxyStop") :
          \E out \in {With(Cur, i, ProxyStopped(Source(i)))} : Becomes(out)
    /\ Did(FALSE)
    /\ UNCHANGED <<poolVars, camVars, audioOut, audioCalls, beatLog>>

\* disconnect clears the image's src, which aborts its load
AppDirectSettled ==
    /\ \E i \in Connecting("direct"), outcome \in {"load", "error", "timeout"} :
          /\ outcome = "load" => Source(i).hasImg
          /\ \E st \in {With(Cur, i, DirectSettled(Source(i), outcome))} :
                \E out \in {ConnectSettled(st, outcome = "load")} : Becomes(out)
    /\ Did(FALSE)
    /\ UNCHANGED <<poolVars, camVars, audioOut, audioCalls, beatLog>>

\* the application with the webcam as its only motion source
AppNext ==
    \/ AppInitAudio
    \/ AppInitWebcam
    \/ AppRender
    \/ KeyArrow
    \/ KeySpace
    \/ KeyC

SpecApp == Fresh /\ [][AppNext]_vars

\* a scheduled animation frame is delivered. Of the steps of AppNext these are
\* the steps of AppRender: no other step advances the clock while a frame is
\* scheduled, and a render call always has an outcome.
Frame ==
    /\ app.loop = "scheduled"
    /\ steps < MaxSteps
    /\ steps' = steps + 1
    /\ now' = now + FrameDt

\* the same, where a scheduled animation frame is always delivered. The answers
\* of getUserMedia come from the user and the devices, and no timer of the code
\* stands in for them.
SpecAppFair == Fresh /\ [][AppNext]_vars /\ WF_<<steps, now>>(Frame)

\* the application with a phone coming and going
RemoteNext ==
    \/ AppInitAudio
    \/ AppInitWebcam
    \/ AppRender
    \/ KeyArrow
    \/ KeyC
    \/ KeyI
    \/ KeyD
    \/ AppConnect
    \/ AppProxyStarted
    \/ AppProxyProbed
    \/ AppProxyStopped
    \/ AppDirectSettled

SpecRemote == Fresh /\ [][RemoteNext]_vars

\* no connect attempt is under way
NoneConnecting ==
    /\ orphans = << >>
    /\ iphoneSource # NullRec => iphoneSource.phase = "idle"

(***************************************************************************)
(* The connect attempts of connectIPhone beside the render loop: the modal  *)
(* is opened, attempts are started by the button and by Enter, and each     *)
(* pending connect moves on and settles. camSeen follows the attempt started last:  *)
(* where its source is (0: iphoneSource, i: orphans[i], -1: settled) and    *)
(* how it ended. camOp holds the last step: whether the connect call of a   *)
(* source resolved, whether that source was connected then, whether it was  *)
(* the one iphoneSource referred to, and whether iphoneSource was null when *)
(* the code after the await ran.                                            *)
(***************************************************************************)
AttemptsInit ==
    /\ PoolFresh
    /\ AudioFresh
    /\ AppFresh
    /\ cam = NewWebcamAnalyzer
    /\ camOp = [op |-> "new", resolved |-> FALSE, own |-> TRUE, held |-> TRUE,
                connected |-> FALSE]
    /\ camSeen = [latest |-> "none", at |-> -1]

\* the key i opens the modal
AttemptsKeyI ==
    /\ visualizer # NullRec
    /\ steps < MaxSteps
    /\ \E st \in {Cur} : \E out \in {HandleKeyPress(st, "i")} : Becomes(out)
    /\ Did(TRUE)
    /\ UNCHANGED <<poolVars, cam, camOp, camSeen, audioOut, audioCalls, beatLog>>

\* the Connect button, or Enter in the URL field, with a well-formed URL
AttemptsConnect ==
    /\ app.modalVisible
    /\ steps < MaxSteps
    /\ \E by \in {"click", "Enter"} :
          /\ by = "click" => ~app.connectDisabled
          /\ \E st \in {Cur} : \E out \in {ConnectIPhone(st)} : Becomes(out)
    /\ Did(TRUE)
    /\ camOp' = [op |-> "connect", resolved |-> FALSE, own |-> TRUE, held |-> TRUE,
                 connected |-> FALSE]
    /\ camSeen' = [latest |-> "pending", at |-> 0]
    /\ UNCHANGED <<poolVars, cam, audioOut, audioCalls, beatLog>>

\* the connect of source i moves on to s; when s is idle the connect has
\* settled, resolved or rejected, and the code after the await runs
AttemptsMove(i, s, resolved) ==
    LET settles == s.phase = "idle"
        mine == camSeen.at = i
    IN  \E st \in {With(Cur, i, s)} :
        \E out \in {IF settles THEN ConnectSettled(st, resolved) ELSE st} :
           /\ Becomes(out)
           /\ camOp' = [op |-> IF settles THEN "settle" ELSE "move",
                         resolved |-> settles /\ resolved,
                         own |-> i = 0,
                         held |-> st.src # NullRec,
                         connected |-> s.isConnected]
           /\ camSeen' =
                 IF mine /\ settles
                 THEN [latest |-> IF resolved THEN "connected" ELSE "failed", at |-> -1]
                 ELSE [camSeen EXCEPT !.at =
                         IF @ = 0 /\ out.src # st.src /\ st.src.phase # "idle"
                         THEN Len(out.ips)
                         ELSE IF i >= 1 /\ settles /\ @ > i THEN @ - 1
                         ELSE @]
           /\ Did(FALSE)
           /\ UNCHANGED <<poolVars, cam, audioOut, audioCalls, beatLog>>

AttemptsProxyStarted ==
    \E i \in Connecting("proxyStart"), success \in BOOLEAN :
       AttemptsMove(i, ProxyStarted(Source(i), success), FALSE)

AttemptsProxyProbed ==
    \E i \in Connecting("proxyProbe"), works \in BOOLEAN :
       AttemptsMove(i, ProxyProbed(Source(i), works), works)

AttemptsProxyStopped ==
    \E i \in Connecting("proxyStop") : AttemptsMove(i, ProxyStopped(Source(i)), FALSE)

AttemptsDirectSettled ==
    \E i \in Connecting("direct"), outcome \in {"load", "error", "timeout"} :
       /\ outcome = "load" => Source(i).hasImg
       /\ AttemptsMove(i, DirectSettled(Source(i), outcome), outcome = "load")

AttemptsNext ==
    \/ AppInitAudio
    \/ AppInitWebcam
    \/ AppRender
    \/ AttemptsKeyI
    \/ AttemptsConnect
    \/ AttemptsProxyStarted
    \/ AttemptsProxyProbed
    \/ AttemptsProxyStopped
    \/ AttemptsDirectSettled

SpecAttempts == AttemptsInit /\ [][AttemptsNext]_vars

\* the same, where every pending connect moves on: ipcRenderer.invoke is
\* answered (with no handler registered in the main process it rejects), the
\* probe image loads, fails or meets its 5 s timer, and the direct image
\* loads, fails or meets its 10 s timer
SpecAttemptsFair ==
    /\ AttemptsInit
    /\ [][AttemptsNext]_vars
    /\ WF_vars(AttemptsProxyStarted)
    /\ WF_vars(AttemptsProxyProbed)
    /\ WF_vars(AttemptsProxyStopped)
    /\ WF_vars(AttemptsDirectSettled)

(***************************************************************************)
(* C27: when a second connectIPhone attempt is started while an earlier one *)
(* is pending, the settling of the earlier attempt never overrides the      *)
(* later one: once all attempts have settled, iphoneSource is the source of *)
(* the attempt started last if that attempt connected, and null only if it  *)
(* failed; and the code after the await of an attempt never runs with       *)
(* iphoneSource null, nor with iphoneSource the source of another attempt.  *)
(***************************************************************************)
C27_LatestAttemptWins ==
    /\ (NoneConnecting /\ camSeen.latest = "connected") =>
          (iphoneSource # NullRec /\ iphoneSource.isConnected)
    /\ (NoneConnecting /\ iphoneSource = NullRec) => camSeen.latest \in {"none", "failed"}
    /\ camOp.resolved => (camOp.held /\ camOp.own)

\* the step moves a pending connect on: it takes no time and is no action of
\* the user
MoveStep == now' = now /\ steps' = steps /\ camOp'.op \in {"move", "settle"}

(***************************************************************************)
(* C28: every connect(url) call eventually resolves or rejects, whatever    *)
(* the proxy and the stream do (the probe gives up after 5 s and falls back *)
(* to the direct connection, which gives up after 10 s); the call resolves  *)
(* only in a state where isConnected is true; and a failure leaves the rest *)
(* of the pipeline as it was, without a remote source: iphoneSource is      *)
(* null, the button is enabled again, and the render loop, the analysers    *)
(* and the visualizer are untouched.                                        *)
(***************************************************************************)
C28_ConnectSettles ==
    /\ []<>NoneConnecting
    /\ [](camOp.resolved => camOp.connected)
    /\ [][(MoveStep /\ camOp'.op = "settle" /\ ~camOp'.resolved) =>
             /\ iphoneSource' = NullRec
             /\ ~app'.connectDisabled
             /\ app'.loop = app.loop
             /\ app'.boot = app.boot
             /\ app'.isPaused = app.isPaused
             /\ webcamAnalyzer' = webcamAnalyzer
             /\ audio' = audio
             /\ visualizer' = visualizer]_vars

\* the attempt started last has failed, no attempt is pending, and the
\* render loop goes on
C28_Witness ==
    /\ camSeen.latest = "failed"
    /\ camOp.op = "settle"
    /\ NoneConnecting
    /\ iphoneSource = NullRec
    /\ app.loop = "scheduled"
    /\ tick.ran

(***************************************************************************)
(* One IPhoneCameraSource through its connect calls. camOp holds the last   *)
(* step and whether the last connect call has rejected; camSeen counts the  *)
(* calls and keeps how the direct connection of the last call ended.        *)
(***************************************************************************)
MaxConnects == 5

ConnectInit ==
    /\ PoolFresh
    /\ AudioFresh
    /\ AppFresh
    /\ cam = NewIPhoneCameraSource
    /\ camOp = [op |-> "new", rejected |-> FALSE]
    /\ camSeen = [calls |-> 0, outcome |-> "none"]

\* connect(url), up to its first await, with and without the Electron API
ConnectCall ==
    /\ cam.phase = "idle"
    /\ camSeen.calls < MaxConnects
    /\ \E hasElectron \in BOOLEAN : cam' = ConnectStart(cam, hasElectron)
    /\ camOp' = [op |-> "connect", rejected |-> FALSE]
    /\ camSeen' = [calls |-> camSeen.calls + 1, outcome |-> "none"]
    /\ UNCHANGED <<poolVars, audioVars, appVars>>

ConnectProxyStarted ==
    /\ cam.phase = "proxyStart"
    /\ \E success \in BOOLEAN : cam' = ProxyStarted(cam, success)
    /\ camOp' = [op |-> "proxyStarted", rejected |-> FALSE]
    /\ UNCHANGED <<camSeen, poolVars, audioVars, appVars>>

ConnectProxyProbed ==
    /\ cam.phase = "proxyProbe"
    /\ \E works \in BOOLEAN : cam' = ProxyProbed(cam, works)
    /\ camOp' = [op |-> "proxyProbed", rejected |-> FALSE]
    /\ UNCHANGED <<camSeen, poolVars, audioVars, appVars>>

ConnectProxyStopped ==
    /\ cam.phase = "proxyStop"
    /\ cam' = ProxyStopped(cam)
    /\ camOp' = [op |-> "proxyStopped", rejected |-> FALSE]
    /\ UNCHANGED <<camSeen, poolVars, audioVars, appVars>>

\* the direct image loads or fails, or the 10 s timer fires first
ConnectDirectSettled ==
    /\ cam.phase = "direct"
    /\ \E outcome \in {"load", "error", "timeout"} :
          /\ cam' = DirectSettled(cam, outcome)
          /\ camOp' = [op |-> outcome, rejected |-> outcome # "load"]
          /\ camSeen' = [camSeen EXCEPT !.outcome = outcome]
    /\ UNCHANGED <<poolVars, audioVars, appVars>>

\* the stream delivers its first frame after the 10 s timer has fired
ConnectLateLoad ==
    /\ cam.phase = "idle"
    /\ camSeen.outcome = "timeout"
    /\ cam.hasImg
    /\ cam' = LateLoad(cam)
    /\ camOp' = [camOp EXCEPT !.op = "lateLoad"]
    /\ camSeen' = [camSeen EXCEPT !.outcome = "load"]
    /\ UNCHANGED <<poolVars, audioVars, appVars>>

\* disconnect(), between two connect calls
ConnectDisconnect ==
    /\ cam.phase = "idle"
    /\ camOp.op # "new"
    /\ cam' = Disconnect(cam)
    /\ camOp' = [camOp EXCEPT !.op = "disconnect"]
    /\ camSeen' = [camSeen EXCEPT !.outcome = "none"]
    /\ UNCHANGED <<poolVars, audioVars, appVars>>

ConnectCycleMode ==
    /\ cam' = CycleMode(cam)
    /\ camOp' = [camOp EXCEPT !.op = "cycleMode"]
    /\ UNCHANGED <<camSeen, poolVars, audioVars, appVars>>

ConnectNext ==
    \/ ConnectCall
    \/ ConnectProxyStarted
    \/ ConnectProxyProbed
    \/ ConnectProxyStopped
    \/ ConnectDirectSettled
    \/ ConnectLateLoad
    \/ ConnectDisconnect
    \/ ConnectCycleMode

SpecConnect == ConnectInit /\ [][ConnectNext]_vars

(***************************************************************************)
(* C29: after a connect(url) call has rejected (10 s timer or load error),  *)
(* that attempt never makes the source connected: isConnected and           *)
(* isStreaming() stay false until a later connect() call succeeds, even if  *)
(* the image fires onload after the timer, and the stream handle the        *)
(* attempt had acquired (the image element) is torn down.                   *)
(***************************************************************************)
C29_RejectedStaysOut ==
    camOp.rejected => (~cam.isConnected /\ ~IsStreaming(cam) /\ ~cam.hasImg)

(***************************************************************************)
(* Visualizer.update on source arrays of any length: tick holds the         *)
(* arguments of the last call.                                              *)
(***************************************************************************)
PublishInit ==
    /\ PoolFresh
    /\ AudioFresh
    /\ CamFresh
    /\ webcamAnalyzer = NullRec
    /\ iphoneSource = NullRec
    /\ orphans = << >>
    /\ visualizer = NewVisualizer
    /\ app = [boot |-> "running", hasAudio |-> FALSE, isPaused |-> FALSE,
              modalVisible |-> FALSE, connectDisabled |-> FALSE, loop |-> "off"]
    /\ tick = [ran |-> FALSE, spectrum |-> << >>, buffer |-> << >>, beat |-> FALSE]
    /\ steps = 0

\* the arrays of up to one element more than size, filled with one value
SourcesFor(size) ==
    {[i \in 1..len |-> fill] : len \in {0, 1, size - 1, size, size + 1}, fill \in {0, 9, 200}}

VisUpdate ==
    /\ steps < MaxUpdates
    /\ \E spectrum \in SourcesFor(BinCount), buffer \in SourcesFor(GridW * GridH),
          beat \in BOOLEAN :
          /\ visualizer' =
                VisualizerUpdate(UpdateSpectrum(UpdateTimeAndBeat(visualizer, beat),
                                                spectrum),
                                 [MotionDataOf(WebcamInit(NewWebcamAnalyzer, TRUE))
                                    EXCEPT !.mode = 1, !.buffer = buffer],
                                 MissTape, 5)
          /\ tick' = [ran |-> TRUE, spectrum |-> spectrum, buffer |-> buffer,
                      beat |-> beat]
    /\ steps' = steps + 1
    /\ UNCHANGED <<webcamAnalyzer, iphoneSource, orphans, app>>
    /\ UNCHANGED <<poolVars, audioVars, camVars>>

PublishNext == VisUpdate

SpecPublish == PublishInit /\ [][PublishNext]_vars

\* data has its size, holds the head of source, and zeros from Len(source) on
Padded(data, source, size) ==
    /\ DOMAIN data = 1..size
    /\ \A i \in 1..size :
          IF i <= Len(source) THEN data[i] = source[i] ELSE data[i] = 0

(***************************************************************************)
(* C13: after every Visualizer.update each published array keeps its fixed  *)
(* size, element i equals source[i] for every i below the source's length,  *)
(* and every element from the source's length on is 0.                      *)
(***************************************************************************)
C13_PublishedPadded ==
    tick.ran =>
       /\ Padded(visualizer.spectrumData, tick.spectrum, BinCount)
       /\ Padded(visualizer.motionData, tick.buffer, GridW * GridH)

(***************************************************************************)
(* Visualizer.update tick by tick: ticks in Trails mode spawn sparks, ticks *)
(* in another mode hide them, and from some tick on the motion data is      *)
(* absent or in mode Off. tick holds whether motion has gone off for good,  *)
(* the sparks that were active then and the parity of the frame number;     *)
(* steps counts the ticks with motion.                                      *)
(***************************************************************************)
FadeInit ==
    /\ PoolFresh
    /\ AudioFresh
    /\ CamFresh
    /\ webcamAnalyzer = NullRec
    /\ iphoneSource = NullRec
    /\ orphans = << >>
    /\ visualizer = NewVisualizer
    /\ app = [boot |-> "running", hasAudio |-> FALSE, isPaused |-> FALSE,
              modalVisible |-> FALSE, connectDisabled |-> FALSE, loop |-> "on"]
    /\ tick = [motion |-> "on", atOff |-> 0, op |-> "new", frame |-> 0]
    /\ steps = 0

\* the motion data of a moving blob in the given mode
FadeMotion(mode, velX) ==
    [intensity |-> 500, centerX |-> 500, centerY |-> 500,
     velocityX |-> velX, velocityY |-> 0, mode |-> mode, buffer |-> BlobBuffer,
     width |-> GridW, height |-> GridH, from |-> "webcam"]

FadeTapes ==
    {[p |-> (GridH - 1) * GridW + GridW \div 2, q |-> 0, n |-> n, r |-> r] :
        n \in {1, 2}, r \in {5}}

\* a tick with motion data in mode Motion, Interactive or Trails
FadeTickOn ==
    /\ tick.motion = "on"
    /\ steps < MaxUpdates
    /\ \E mode \in 1..3, velX \in {-625, -100}, tape \in FadeTapes :
          visualizer' = VisualizerUpdate(visualizer, FadeMotion(mode, velX), tape, tape.r)
    /\ tick' = [tick EXCEPT !.op = "on", !.frame = 1 - @]
    /\ steps' = steps + 1
    /\ UNCHANGED <<webcamAnalyzer, iphoneSource, orphans, app>>
    /\ UNCHANGED <<poolVars, audioVars, camVars>>

\* a tick without motion data, or with motion data in mode Off
FadeTickOff ==
    /\ \E motionData \in {NullRec, FadeMotion(0, -625)} :
          visualizer' = VisualizerUpdate(visualizer, motionData, MissTape, 5)
    /\ tick' = [tick EXCEPT !.op = "off", !.frame = 1 - @]
    /\ UNCHANGED <<steps, webcamAnalyzer, iphoneSource, orphans, app>>
    /\ UNCHANGED <<poolVars, audioVars, camVars>>

\* from here on no tick has motion
FadeMotionOff ==
    /\ tick.motion = "on"
    /\ tick' = [tick EXCEPT !.motion = "off",
                            !.atOff = NumActive(visualizer.sparkSystem),
                            !.op = "motionOff"]
    /\ UNCHANGED <<steps, visualizer, webcamAnalyzer, iphoneSource, orphans, app>>
    /\ UNCHANGED <<poolVars, audioVars, camVars>>

FadeNext == FadeTickOn \/ FadeTickOff \/ FadeMotionOff

SpecFade == FadeInit /\ [][FadeNext]_vars

\* a frame of the render loop while motion is off
FadeFrame == tick' = [tick EXCEPT !.op = "off", !.frame = 1 - @]

\* the render loop keeps calling update
SpecFadeFair == SpecFade /\ WF_tick(FadeFrame)

SparksGone ==
    /\ NumActive(visualizer.sparkSystem) = 0
    /\ ~visualizer.sparkSystem.visible

(***************************************************************************)
(* C30: once the motion data passed to Visualizer.update is absent or in    *)
(* mode Off on every tick, no spark is spawned, every spark that is still   *)
(* active is deactivated after finitely many ticks, and after that the      *)
(* spark mesh is hidden and stays hidden while motion remains off.          *)
(***************************************************************************)
C30_SparksFadeOut ==
    /\ [](tick.motion = "off" => <>[]SparksGone)
    /\ [][tick.motion = "off" =>
             NumActive(visualizer.sparkSystem') <= NumActive(visualizer.sparkSystem)]_vars

C30_Witness ==
    /\ tick.motion = "off"
    /\ tick.op = "off"
    /\ tick.atOff > 0
    /\ SparksGone

(***************************************************************************)
(* The visualizer on its own: scene selections, resizes and renders.        *)
(***************************************************************************)
ScenesInit ==
    /\ PoolFresh
    /\ AudioFresh
    /\ CamFresh
    /\ webcamAnalyzer = NullRec
    /\ iphoneSource = NullRec
    /\ orphans = << >>
    /\ visualizer = NewVisualizer
    /\ app = [boot |-> "running", hasAudio |-> FALSE, isPaused |-> FALSE,
              modalVisible |-> FALSE, connectDisabled |-> FALSE, loop |-> "off"]
    /\ tick = NoTick
    /\ steps = 0

SceneNext ==
    /\ visualizer' = NextScene(visualizer)
    /\ UNCHANGED <<webcamAnalyzer, iphoneSource, orphans, app, tick, steps>>
    /\ UNCHANGED <<poolVars, audioVars, camVars>>

ScenePrev ==
    /\ visualizer' = PrevScene(visualizer)
    /\ UNCHANGED <<webcamAnalyzer, iphoneSource, orphans, app, tick, steps>>
    /\ UNCHANGED <<poolVars, audioVars, camVars>>

\* setScene, with an index in range (the scene shown included) or out of it
SceneSet ==
    /\ \E index \in -1..Scenes : visualizer' = SetScene(visualizer, index)
    /\ UNCHANGED <<webcamAnalyzer, iphoneSource, orphans, app, tick, steps>>
    /\ UNCHANGED <<poolVars, audioVars, camVars>>

\* the window takes one of three widths
SceneResize ==
    /\ \E displayWidth \in 1..3 : visualizer' = HandleResize(visualizer, displayWidth)
    /\ UNCHANGED <<webcamAnalyzer, iphoneSource, orphans, app, tick, steps>>
    /\ UNCHANGED <<poolVars, audioVars, camVars>>

SceneRender ==
    /\ visualizer' = VisualizerRender(visualizer)
    /\ UNCHANGED <<webcamAnalyzer, iphoneSource, orphans, app, tick, steps>>
    /\ UNCHANGED <<poolVars, audioVars, camVars>>

ScenesNext ==
    \/ SceneNext
    \/ ScenePrev
    \/ SceneSet
    \/ SceneResize
    \/ SceneRender

SpecScenes == ScenesInit /\ [][ScenesNext]_vars

(***************************************************************************)
(* C14: no paint accumulated before the last (re)entry into Motion Paint is *)
(* ever read as the previous frame, and while Motion Paint is shown neither *)
(* ping-pong target holds such paint: both were cleared on entry.           *)
(***************************************************************************)
C14_NoStalePaint ==
    /\ visualizer.uPrevFrame \in {"none", "clear", "paint"}
    /\ visualizer.currentSceneIndex = MotionPaint =>
          \A i \in DOMAIN visualizer.pingPongTargets :
             visualizer.pingPongTargets[i] \in {"clear", "paint"}

\* the first accumulation render after targets that had been painted were
\* cleared: it read a clear target
C14_Witness ==
    /\ visualizer.currentSceneIndex = MotionPaint
    /\ visualizer.pingPongTargets = <<"paint", "clear">>
    /\ visualizer.currentTargetIndex = 0
    /\ visualizer.uPrevFrame = "clear"

(***************************************************************************)
(* The controls: the setters of a spark system that spawns, and of the      *)
(* audio analyser.                                                          *)
(***************************************************************************)
ControlsInit ==
    /\ pool = NewSparkSystem(PoolSize)
    /\ poolOp = "new"
    /\ poolOps = 0
    /\ AudioFresh
    /\ CamFresh
    /\ AppFresh

\* in range, at and beyond the bounds, and between two colour modes
Arguments == {-1000, 500, 1500, 9000}

\* spawnFromMotion on a moving blob
CtlSpawnFromMotion ==
    /\ poolOps < MaxCalls
    /\ \E tape \in AppTapes :
          pool' = SpawnFromMotion(pool, BlobBuffer, GridW, GridH, -625, 0, 500, tape)
    /\ poolOp' = "spawnFromMotion"
    /\ poolOps' = poolOps + 1
    /\ UNCHANGED <<audioVars, camVars, appVars>>

CtlSetMaxParticles ==
    /\ poolOps < MaxCalls
    /\ \E newMax \in (MinParticles - 1)..(MaxParticles + 1) :
          pool' = SetMaxParticles(pool, newMax)
    /\ poolOp' = IF NumActive(pool) > 0 THEN "setMaxParticles, live" ELSE "setMaxParticles"
    /\ poolOps' = poolOps + 1
    /\ UNCHANGED <<audioVars, camVars, appVars>>

CtlSetDensity ==
    /\ poolOps < MaxCalls
    /\ \E value \in Arguments, adjust \in BOOLEAN :
          pool' = IF adjust THEN AdjustDensity(pool, value) ELSE SetDensity(pool, value)
    /\ poolOp' = "setDensity"
    /\ poolOps' = poolOps + 1
    /\ UNCHANGED <<audioVars, camVars, appVars>>

CtlSetColorMode ==
    /\ poolOps < MaxCalls
    /\ \E mode \in Arguments : pool' = SetColorMode(pool, mode)
    /\ poolOp' = "setColorMode"
    /\ poolOps' = poolOps + 1
    /\ UNCHANGED <<audioVars, camVars, appVars>>

CtlSetSizeMultiplier ==
    /\ poolOps < MaxCalls
    /\ \E value \in Arguments : pool' = SetSizeMultiplier(pool, value)
    /\ poolOp' = "setSizeMultiplier"
    /\ poolOps' = poolOps + 1
    /\ UNCHANGED <<audioVars, camVars, appVars>>

CtlSetBeatThreshold ==
    /\ poolOps < MaxCalls
    /\ \E threshold \in Arguments : audio' = SetBeatThreshold(audio, threshold)
    /\ poolOp' = "setBeatThreshold"
    /\ poolOps' = poolOps + 1
    /\ UNCHANGED <<pool, now, audioOut, audioCalls, beatLog, camVars, appVars>>

CtlSetBeatCooldown ==
    /\ poolOps < MaxCalls
    /\ \E cooldown \in Arguments : audio' = SetBeatCooldown(audio, cooldown)
    /\ poolOp' = "setBeatCooldown"
    /\ poolOps' = poolOps + 1
    /\ UNCHANGED <<pool, now, audioOut, audioCalls, beatLog, camVars, appVars>>

CtlSetSmoothingFactor ==
    /\ poolOps < MaxCalls
    /\ \E factor \in Arguments : audio' = SetSmoothingFactor(audio, factor)
    /\ poolOp' = "setSmoothingFactor"
    /\ poolOps' = poolOps + 1
    /\ UNCHANGED <<pool, now, audioOut, audioCalls, beatLog, camVars, appVars>>

ControlsNext ==
    \/ CtlSpawnFromMotion
    \/ CtlSetMaxParticles
    \/ CtlSetDensity
    \/ CtlSetColorMode
    \/ CtlSetSizeMultiplier
    \/ CtlSetBeatThreshold
    \/ CtlSetBeatCooldown
    \/ CtlSetSmoothingFactor

SpecControls == ControlsInit /\ [][ControlsNext]_vars

ResizedPool == poolOp' \in {"setMaxParticles", "setMaxParticles, live"}

Active(P) == {i \in 1..P.maxParticles : P.particles[i].active}

(***************************************************************************)
(* C15: setMaxParticles(newMax) on a pool with k active particles leaves    *)
(* min(k, newMax) particles active, each with the position, velocity and    *)
(* age of a particle that was active before the call.                       *)
(***************************************************************************)
C15_ResizeKeepsActive ==
    [][ResizedPool =>
          /\ NumActive(pool') = Min2(NumActive(pool), pool'.maxParticles)
          /\ \A i \in Active(pool') : \E j \in Active(pool) :
                /\ pool'.particles[i].x = pool.particles[j].x
                /\ pool'.particles[i].y = pool.particles[j].y
                /\ pool'.particles[i].vx = pool.particles[j].vx
                /\ pool'.particles[i].vy = pool.particles[j].vy
                /\ pool'.particles[i].age = pool.particles[j].age]_vars

(***************************************************************************)
(* C15 amended: setMaxParticles(newMax) whose clamped size differs from the *)
(* pool's size drops every particle: no particle is active after it and     *)
(* activeCount is 0; when the clamped size is the pool's size the pool is   *)
(* left as it was, with all its active particles.                           *)
(***************************************************************************)
C15_ResizeClearsPool ==
    [][ResizedPool =>
          IF pool'.maxParticles = pool.maxParticles
          THEN pool' = pool
          ELSE /\ NumActive(pool') = 0
               /\ pool'.activeCount = 0]_vars

\* a pool that held active particles has been resized, and holds none
C15_Witness ==
    /\ poolOp = "setMaxParticles, live"
    /\ pool.maxParticles # PoolSize
    /\ NumActive(pool) = 0

(***************************************************************************)
(* C20: after any sequence of setter calls every stored parameter lies in   *)
(* its valid range: beatThreshold in [1.0, 2.0], beatCooldown >= 0,         *)
(* smoothingFactor in [0, 1], density in [0.25, 2.0], sizeMultiplier in     *)
(* [0.1, 4.0], maxParticles within the slider's range, colorMode 0, 1 or 2. *)
(***************************************************************************)
C20_SettingsInRange ==
    /\ audio.beatThreshold \in 1000..2000
    /\ audio.beatCooldown >= 0
    /\ audio.smoothingFactor \in 0..1000
    /\ pool.density \in 250..2000
    /\ pool.sizeMultiplier \in 100..4000
    /\ pool.maxParticles \in MinParticles..MaxParticles
    /\ pool.colorMode \in {0, 1000, 2000}

(***************************************************************************)
(* The paper physics of ConfettiParticleSystem.update, in thousandths.      *)
(***************************************************************************)
GRAVITY == 1200
BASE_DRAG == 400
FLAT_DRAG_MULT == 7000
EDGE_DRAG_MULT == 800
ANGULAR_DAMPING == 930
TORQUE_FROM_VELOCITY == 600
FLUTTER_TORQUE == 3000
DRIFT_FROM_TILT == 120
STALL_THRESHOLD == 15

\* cos and sin for an angle in thousandths of a radian
Cos(a) ==
    LET m == Abs(a) % 6283
    IN  IF m > 1571 /\ m < 4712 THEN -AbsCos(a) ELSE AbsCos(a)

Sin(a) == Cos(a - 1571)

\* the drag multiplier of a piece with no regard to its orientation
DragMultEdgeOn(flatness) == EDGE_DRAG_MULT

\* EDGE_DRAG_MULT + (FLAT_DRAG_MULT - EDGE_DRAG_MULT) * p.flatness
DragMult(flatness) == EDGE_DRAG_MULT + FMul(FLAT_DRAG_MULT - EDGE_DRAG_MULT, flatness)

\* no lift
LiftFactorNone(flatness) == 1000

\* liftFactor = 1.0 - p.flatness * 0.6
LiftFactor(flatness) == 1000 - FMul(flatness, 600)

\* the forces on a piece of the given flatness: the drag multiplier, the
\* drag coefficient and the gravity that update applies to it
Forces(p, flatness) ==
    [dragMult |-> DragMult(flatness),
     effectiveDrag |-> FMul(FMul(BASE_DRAG, p.dragCoeff), DragMult(flatness)),
     effectiveGravity |-> FMul(GRAVITY, LiftFactor(flatness))]

\* the pitch, yaw and flatness of a piece after the rotation of one update
Rotated(p, dt) ==
    LET pitch == JsRem(p.pitch + FMul(p.pitchVel, dt), 6283)
    IN  [p EXCEPT !.age = @ + dt,
                  !.pitch = pitch,
                  !.yaw = JsRem(p.yaw + FMul(p.yawVel, dt), 6283),
                  !.flatness = AbsCos(pitch),
                  !.pitchVel = FMul(@, ANGULAR_DAMPING),
                  !.yawVel = FMul(@, ANGULAR_DAMPING)]

\* the piece p after the forces of one update: p1 is p after its rotation and
\* speed its speed
Moved(p, p1, speed, dt, r) ==
    LET torqueMagnitude == FMul(FMul(speed, TORQUE_FROM_VELOCITY), p1.flatness)
        torqueDir == FMul(Sin(2 * p1.pitch), 500) + FMul(r - 500, 300)
        torque == IF speed > 10 THEN FMul(FMul(torqueDir, torqueMagnitude), dt) * 60 ELSE 0
        flutter == speed < STALL_THRESHOLD /\ p1.flatness > 700 /\ r < 150
        f == Forces(p, p1.flatness)
        dragMag == FMul(FMul(f.effectiveDrag, speed), speed)
        dragX == IF speed > 1 THEN ((-((p.vx * dragMag) \div speed)) * dt) \div p.mass ELSE 0
        dragY == IF speed > 1 THEN ((-((p.vy * dragMag) \div speed)) * dt) \div p.mass ELSE 0
        drift == FMul(FMul(FMul(Sin(p1.pitch + p1.yaw), DRIFT_FROM_TILT), p1.flatness), dt)
        vx == p.vx + dragX + drift
        vy == p.vy + dragY - FMul(f.effectiveGravity, dt)
    IN  [p1 EXCEPT
           !.pitchVel = @ + torque + (IF flutter THEN FMul(r - 500, FLUTTER_TORQUE) ELSE 0),
           !.yawVel = @ + (IF flutter THEN FMul(FMul(r - 500, FLUTTER_TORQUE), 500) ELSE 0),
           !.vx = vx,
           !.vy = vy,
           !.x = @ + FMul(vx, dt),
           !.y = @ + FMul(vy, dt)]

\* the collision of the moved piece with the motion under it, and its end
Collided(P, prevY, moved, motionValue, r) ==
    LET motionStrength == (motionValue * 1000) \div 255
        q == IF motionValue > P.motionThreshold
             THEN [moved EXCEPT
                     !.pitchVel = @ + FMul(FMul(r - 500, 5000), motionStrength),
                     !.yawVel = @ + FMul(FMul(r - 500, 3000), motionStrength),
                     !.vy = 150 + FMul(motionStrength, 200),
                     !.vx = @ + FMul(FMul(r - 500, 200), motionStrength),
                     !.y = prevY + 10,
                     !.alpha = FMul(@, 950),
                     !.bounces = @ + 1]
             ELSE moved
    IN  IF \/ q.y < -150 \/ q.x < -150 \/ q.x > 1150
           \/ q.bounces > 10 \/ q.alpha < 100 \/ q.age > q.maxAge
        THEN [q EXCEPT !.active = FALSE]
        ELSE q

\* the body of the loop of update for one active piece
ConfettiStep(P, p, dt, motionBuffer, motionWidth, motionHeight, r) ==
    CHOOSE q \in
        {Collided(P, p.y, moved,
                  CellUnder(moved, motionBuffer, motionWidth, motionHeight), r) :
           moved \in {Moved(p, p1, speed, dt, r) :
                        p1 \in {Rotated(p, dt)},
                        speed \in {ISqrt(p.vx * p.vx + p.vy * p.vy)}}} : TRUE

\* the loop of update: every active piece takes its step, and activeCount
\* counts those that stay active
ConfettiLoop(P, dt, motionBuffer, motionWidth, motionHeight, r) ==
    CHOOSE Q \in
        {[P EXCEPT !.particles = particles,
                   !.activeCount = Cardinality({i \in 1..P.maxParticles :
                                                  particles[i].active})] :
           particles \in {[i \in 1..P.maxParticles |->
                             IF P.particles[i].active
                             THEN ConfettiStep(P, P.particles[i], dt, motionBuffer,
                                               motionWidth, motionHeight, r)
                             ELSE P.particles[i]]}} : TRUE

\* the steady spawn of update: one piece for every whole unit accumulated
RECURSIVE ConfettiSpawnWhile(_, _)
ConfettiSpawnWhile(P, r) ==
    IF P.spawnAccumulator < 1000 THEN P
    ELSE IF FindInactiveParticle(P) = -1
         THEN [P EXCEPT !.spawnAccumulator = @ % 1000]
    ELSE ConfettiSpawnWhile([SpawnConfetti(P, -1, r) EXCEPT !.spawnAccumulator = @ - 1000],
                            r)

\* the pool as the loop of update finds it: the steady spawn and the
\* occasional burst are done
ConfettiSpawned(P, dt, r) ==
    LET spawned == ConfettiSpawnWhile([P EXCEPT !.time = @ + dt,
                                                !.spawnAccumulator = @ + P.spawnRate * dt],
                                      r)
    IN  IF r < 6 THEN ConfettiBurst(spawned, 8 + FMul(r, 12), -1, r) ELSE spawned

ConfettiUpdate(P, dt, motionBuffer, motionWidth, motionHeight, r) ==
    CHOOSE Q \in
        {UpdateBuffers(ConfettiLoop(S, dt, motionBuffer, motionWidth, motionHeight, r)) :
           S \in {[ConfettiSpawned(P, dt, r) EXCEPT !.activeCount = 0]}} : TRUE

(***************************************************************************)
(* A confetti pool on its own: pieces are spawned and the pool is updated.  *)
(* poolOp logs, for every piece the loop of the last update worked on, the  *)
(* forces the update applied to it.                                         *)
(***************************************************************************)
\* the values of Math.random(): among them those that leave a piece edge-on
\* and flat after the rotation of its first update
ConfettiRand == {5, 277, 500, 800}

ConfettiInit ==
    /\ AudioFresh
    /\ CamFresh
    /\ AppFresh
    /\ pool = NewConfettiSystem(PoolSize)
    /\ poolOp = [op |-> "new", forces |-> << >>]
    /\ poolOps = 0

ConfettiSpawnConfetti ==
    /\ poolOps < MaxCalls
    /\ \E r \in ConfettiRand, x \in {-1, 500} : pool' = SpawnConfetti(pool, x, r)
    /\ poolOp' = [op |-> "spawnConfetti", forces |-> << >>]
    /\ poolOps' = poolOps + 1
    /\ UNCHANGED <<audioVars, camVars, appVars>>

\* the forces update applies to the pieces that are active when its loop starts
ForcesLog(P, dt) ==
    [i \in 1..P.maxParticles |->
        IF P.particles[i].active
        THEN Forces(P.particles[i], Rotated(P.particles[i], dt).flatness)
        ELSE NullRec]

ConfettiByUpdate ==
    /\ poolOps < MaxCalls
    /\ \E r \in ConfettiRand, mb \in {NoBuffer, HotBuffer} :
       \E S \in {ConfettiSpawned(pool, TickMs, r)} :
          /\ pool' = ConfettiUpdate(pool, TickMs, mb, GridW, GridH, r)
          /\ poolOp' = [op |-> "update", forces |-> ForcesLog(S, TickMs)]
    /\ poolOps' = poolOps + 1
    /\ UNCHANGED <<audioVars, camVars, appVars>>

ConfettiClear ==
    /\ poolOps < MaxCalls
    /\ pool' = Clear(pool)
    /\ poolOp' = [op |-> "clear", forces |-> << >>]
    /\ poolOps' = poolOps + 1
    /\ UNCHANGED <<audioVars, camVars, appVars>>

ConfettiNext ==
    \/ ConfettiSpawnConfetti
    \/ ConfettiByUpdate
    \/ ConfettiClear

SpecConfetti == ConfettiInit /\ [][ConfettiNext]_vars

\* the pieces the last update worked on
Updated == {i \in 1..pool.maxParticles : poolOp.op = "update" /\ poolOp.forces[i] # NullRec}

(***************************************************************************)
(* C25: in the confetti update a piece with flatness 1 gets the flat drag   *)
(* multiplier 7.0 and a gravity reduced by 60% (0.4 x 1.2), a piece with     *)
(* flatness 0 gets the edge-on drag multiplier 0.8 and the full gravity      *)
(* 1.2, and for every flatness in [0, 1] both values are the linear          *)
(* interpolation between these two cases (to the last digit of the          *)
(* thousandths).                                                            *)
(***************************************************************************)
C25_FlatnessLaw ==
    \A i \in Updated :
        LET flatness == pool.particles[i].flatness
            f == poolOp.forces[i]
        IN  /\ flatness \in 0..1000
            /\ flatness = 1000 => f.dragMult = 7000 /\ f.effectiveGravity = 480
            /\ flatness = 0 => f.dragMult = 800 /\ f.effectiveGravity = 1200
            /\ Abs(1000 * f.dragMult - (800 * (1000 - flatness) + 7000 * flatness)) < 1000
            /\ Abs(1000 * f.effectiveGravity
                   - (1200 * (1000 - flatness) + 480 * flatness)) < 2000

\* an update has worked on a flat piece, an edge-on piece and one in between
C25_Witness ==
    /\ \E i \in Updated : pool.particles[i].flatness = 1000
    /\ \E i \in Updated : pool.particles[i].flatness = 0
    /\ \E i \in Updated : pool.particles[i].flatness \in 300..700

(***************************************************************************)
(* The spawn paths of the four particle systems, each driven through its    *)
(* spawn method, its update and clear. poolOp logs, beside the operation's  *)
(* name, the particles before it, the slots that have held a particle, and  *)
(* the particles the same call leaves in a pool whose free slots held       *)
(* other values.                                                            *)
(***************************************************************************)
SpawnRand == Rand \cup {300}

\* P with other values in every field of its inactive particles
Stale(P) ==
    [P EXCEPT !.particles =
        [i \in 1..P.maxParticles |->
            IF P.particles[i].active THEN P.particles[i]
            ELSE [f \in DOMAIN P.particles[i] |->
                     IF f = "active" THEN FALSE ELSE P.particles[i][f] + 7]]]

SpawnLog(op, P, twin) ==
    [op |-> op, before |-> P.particles, twin |-> twin.particles,
     used |-> IF poolOp.op = "new" THEN {i \in 1..P.maxParticles : P.particles[i].active}
              ELSE poolOp.used \cup {i \in 1..P.maxParticles : P.particles[i].active}]

\* the samples of a spawnFromMotion call: those of the application, and
\* samples that all hit the blob's edge
SpawnTapes ==
    AppTapes \cup {[p |-> (GridH - 1) * GridW + GridW \div 2,
                    q |-> (GridH - 1) * GridW + GridW \div 2, n |-> 1, r |-> 800]}

SpawnInit ==
    /\ AudioFresh
    /\ CamFresh
    /\ AppFresh
    /\ pool \in {NewSparkSystem(PoolSize), NewBubbleSystem(PoolSize),
                  NewSparkRainSystem(PoolSize, 5), NewConfettiSystem(PoolSize)}
    /\ poolOp = [op |-> "new", before |-> pool.particles, twin |-> pool.particles,
                 used |-> {}]
    /\ poolOps = 0

\* SparkParticleSystem.spawnFromMotion on a moving blob
SpawnBySpawnFromMotion ==
    /\ poolOps < MaxCalls
    /\ pool.kind = "spark"
    /\ \E tape \in SpawnTapes :
       \E out \in {SpawnFromMotion(pool, BlobBuffer, GridW, GridH, -625, 0, 500, tape)},
          twin \in {SpawnFromMotion(Stale(pool), BlobBuffer, GridW, GridH, -625, 0, 500,
                                    tape)} :
          /\ pool' = out
          /\ poolOp' = SpawnLog("spawnFromMotion", pool, twin)
    /\ poolOps' = poolOps + 1
    /\ UNCHANGED <<audioVars, camVars, appVars>>

\* BubbleParticleSystem.spawnBubble
SpawnBySpawnBubble ==
    /\ poolOps < MaxCalls
    /\ pool.kind = "bubble"
    /\ \E r \in SpawnRand :
       \E out \in {SpawnBubble(pool, r)}, twin \in {SpawnBubble(Stale(pool), r)} :
          /\ pool' = out
          /\ poolOp' = SpawnLog("spawnBubble", pool, twin)
    /\ poolOps' = poolOps + 1
    /\ UNCHANGED <<audioVars, camVars, appVars>>

\* BubbleParticleSystem.spawnSpark of the spark-rain variant
SpawnBySpawnSpark ==
    /\ poolOps < MaxCalls
    /\ pool.kind = "sparkrain"
    /\ \E r \in SpawnRand, isTrail \in BOOLEAN, x \in {-1, 500} :
       \E out \in {SpawnSpark(pool, x, isTrail, r)},
          twin \in {SpawnSpark(Stale(pool), x, isTrail, r)} :
          /\ pool' = out
          /\ poolOp' = SpawnLog("spawnSpark", pool, twin)
    /\ poolOps' = poolOps + 1
    /\ UNCHANGED <<audioVars, camVars, appVars>>

\* ConfettiParticleSystem.spawnConfetti
SpawnBySpawnConfetti ==
    /\ poolOps < MaxCalls
    /\ pool.kind = "confetti"
    /\ \E r \in SpawnRand, x \in {-1, 500} :
       \E out \in {SpawnConfetti(pool, x, r)}, twin \in {SpawnConfetti(Stale(pool), x, r)} :
          /\ pool' = out
          /\ poolOp' = SpawnLog("spawnConfetti", pool, twin)
    /\ poolOps' = poolOps + 1
    /\ UNCHANGED <<audioVars, camVars, appVars>>

\* ConfettiParticleSystem.spawnBurst
SpawnBySpawnBurst ==
    /\ poolOps < MaxCalls
    /\ pool.kind = "confetti"
    /\ \E r \in SpawnRand, count \in {2, PoolSize} :
       \E out \in {ConfettiBurst(pool, count, -1, r)},
          twin \in {ConfettiBurst(Stale(pool), count, -1, r)} :
          /\ pool' = out
          /\ poolOp' = SpawnLog("spawnBurst", pool, twin)
    /\ poolOps' = poolOps + 1
    /\ UNCHANGED <<audioVars, camVars, appVars>>

\* update of the spark, bubble-rain and spark-rain systems: the spawns by rate
\* and, in the spark-rain variant, the trails of an impact
SystemUpdate(P, mb, r) ==
    CASE P.kind = "spark" -> SparkUpdate(P, TickMs)
      [] P.kind = "bubble" -> BubbleUpdate(P, TickMs, mb, GridW, GridH, r)
      [] P.kind = "sparkrain" -> SparkRainUpdate(P, TickMs, mb, GridW, GridH, r)

SpawnByUpdate ==
    /\ poolOps < MaxCalls
    /\ pool.kind # "confetti"
    /\ \E r \in SpawnRand, mb \in {NoBuffer, HotBuffer} :
       \E out \in {SystemUpdate(pool, mb, r)}, twin \in {SystemUpdate(Stale(pool), mb, r)} :
          /\ pool' = out
          /\ poolOp' = SpawnLog("update", pool, twin)
    /\ poolOps' = poolOps + 1
    /\ UNCHANGED <<audioVars, camVars, appVars>>

SpawnClear ==
    /\ poolOps < MaxCalls
    /\ pool' = Clear(pool)
    /\ poolOp' = SpawnLog("clear", pool, Clear(pool))
    /\ poolOps' = poolOps + 1
    /\ UNCHANGED <<audioVars, camVars, appVars>>

SpawnSetSpawnRate ==
    /\ poolOps < MaxCalls
    /\ pool.kind \in {"bubble", "sparkrain"}
    /\ pool' = SetSpawnRate(pool, 0)
    /\ poolOp' = SpawnLog("setSpawnRate", pool, pool)
    /\ poolOps' = poolOps + 1
    /\ UNCHANGED <<audioVars, camVars, appVars>>

\* SparkParticleSystem.setMaxParticles, from the particles slider
SpawnSetMaxParticles ==
    /\ poolOps < MaxCalls
    /\ pool.kind = "spark"
    /\ \E newMax \in {MinParticles, MaxParticles} :
       \E out \in {SetMaxParticles(pool, newMax)} :
          /\ pool' = out
          /\ poolOp' = SpawnLog("setMaxParticles", out, out)
    /\ poolOps' = poolOps + 1
    /\ UNCHANGED <<audioVars, camVars, appVars>>

SpawnNext ==
    \/ SpawnSetMaxParticles
    \/ SpawnBySpawnFromMotion
    \/ SpawnBySpawnBubble
    \/ SpawnBySpawnSpark
    \/ SpawnBySpawnConfetti
    \/ SpawnBySpawnBurst
    \/ SpawnByUpdate
    \/ SpawnClear
    \/ SpawnSetSpawnRate

SpecSpawn == SpawnInit /\ [][SpawnNext]_vars

\* the slots the last operation spawned into: free before it, active after it
SpawnedSlots ==
    {i \in 1..pool.maxParticles : ~poolOp.before[i].active /\ pool.particles[i].active}

(***************************************************************************)
(* C16: every spawn path assigns every field of the pool slot it reuses:    *)
(* the particle a call leaves in a slot that was free is the particle the   *)
(* same call leaves there when the slot held other values before.           *)
(***************************************************************************)
C16_SpawnIgnoresSlot ==
    \A i \in SpawnedSlots : pool.particles[i] = poolOp.twin[i]

\* a slot that has held a particle is spawned into again, and the new
\* particle's size is not the size its previous occupant left
C16_Witness ==
    \E i \in SpawnedSlots :
        /\ i \in poolOp.used
        /\ poolOp.before[i].size # pool.particles[i].size

\* the step is a render tick that reaches Visualizer.update while the webcam,
\* the only motion source there is, is Off
OffTick ==
    /\ webcamAnalyzer # NullRec
    /\ webcamAnalyzer.mode = 0
    /\ iphoneSource = NullRec
    /\ now' # now
    /\ tick'.ran
    /\ app'.loop = "scheduled"

(***************************************************************************)
(* C26: in every particle pool findInactiveParticle returns a particle that *)
(* is inactive at the time of the call, and null exactly when every slot is *)
(* active; a spawn never overwrites a live particle, the number of active   *)
(* particles never exceeds maxParticles, and the cursor nextFreeSlot stays  *)
(* in [0, maxParticles) after any sequence of spawns, updates, clears and    *)
(* resizes.                                                                 *)
(***************************************************************************)
SpawnOps == {"spawnFromMotion", "spawnBubble", "spawnSpark", "spawnConfetti", "spawnBurst"}

C26_FreeSlotSearch ==
    /\ LET idx == FindInactiveParticle(pool)
       IN  /\ idx = -1 <=> \A i \in 1..pool.maxParticles : pool.particles[i].active
           /\ idx # -1 => /\ idx \in 0..(pool.maxParticles - 1)
                          /\ ~pool.particles[idx + 1].active
    /\ poolOp.op \in SpawnOps =>
          \A i \in 1..pool.maxParticles :
              poolOp.before[i].active => pool.particles[i] = poolOp.before[i]
    /\ NumActive(pool) <= pool.maxParticles
    /\ Len(pool.particles) = pool.maxParticles
    /\ pool.nextFreeSlot \in 0..(pool.maxParticles - 1)

\* after a resize, a spawn into a pool with live particles has found the free
\* slots beside them and left the pool full: the next search finds none
C26_Witness ==
    /\ poolOp.op \in SpawnOps
    /\ pool.maxParticles # PoolSize
    /\ \E i \in 1..pool.maxParticles : poolOp.before[i].active
    /\ SpawnedSlots # {}
    /\ FindInactiveParticle(pool) = -1

(***************************************************************************)
(* C17: from the first tick after a motion source is switched to Off,       *)
(* uMotionMode is 0, uMotionIntensity is 0, uMotionVelocity is (0, 0) and    *)
(* the published motion texture is all zero.                                *)
(***************************************************************************)
C17_OffPublishesNothing ==
    [][OffTick =>
          /\ visualizer'.uMotionMode = 0
          /\ visualizer'.uMotionIntensity = 0
          /\ visualizer'.uMotionVelocity = <<0, 0>>
          /\ \A i \in DOMAIN visualizer'.motionData : visualizer'.motionData[i] = 0]_vars

(***************************************************************************)
(* C18: once the connect attempts and disconnects made so far have          *)
(* settled, uIPhoneCORSEnabled is 1 exactly when iphoneSource is non-null    *)
(* and has pixel access (hasCORS()), and 0 otherwise.                       *)
(***************************************************************************)
C18_FlagMatchesSource ==
    (visualizer # NullRec /\ NoneConnecting) =>
        (visualizer.uIPhoneCORSEnabled <=>
            (iphoneSource # NullRec /\ iphoneSource.corsEnabled))

\* the step is a render tick that reaches Visualizer.update
UpdateTick ==
    /\ now' # now
    /\ tick'.ran
    /\ app'.loop = "scheduled"

\* every extraction call of the log comes before update
ExtractionFirst(order) ==
    \A i, j \in DOMAIN order :
        (order[i] \in {"getAudioData", "getMotionData"} /\ order[j] = "update") => i < j

\* v holds what update publishes of the motion data of source s, on top of
\* the motion texture before
Publishes(v, s, before) ==
    LET motionData == MotionDataOf(s)
    IN  /\ v.uMotionMode = motionData.mode
        /\ v.uMotionIntensity = motionData.intensity
        /\ v.uMotionVelocity = <<motionData.velocityX, motionData.velocityY>>
        /\ v.motionData = PublishTexture(before, motionData.buffer)

(***************************************************************************)
(* C19: within every render tick getAudioData and getMotionData, with its   *)
(* whole analyzeFrame pass, finish before Visualizer.update starts: update   *)
(* follows both calls, and what it publishes of an active source is the     *)
(* motion field that source holds after this tick's analysis.               *)
(***************************************************************************)
C19_ExtractionBeforeUpdate ==
    [][UpdateTick =>
          /\ ExtractionFirst(tick'.order)
          /\ "update" \in {tick'.order[i] : i \in DOMAIN tick'.order}
          /\ (tick'.from = "webcam" /\ webcamAnalyzer'.mode > 0) =>
                 Publishes(visualizer', webcamAnalyzer', visualizer.motionData)
          /\ (tick'.from = "iphone" /\ iphoneSource'.mode > 0) =>
                 Publishes(visualizer', iphoneSource', visualizer.motionData)]_vars

\* a tick with audio and an active webcam on a frame that moved: update came
\* last and published the intensity of this frame
C19_Witness ==
    /\ tick.ran
    /\ tick.order = <<"getAudioData", "getMotionData", "update", "render">>
    /\ tick.from = "webcam"
    /\ webcamAnalyzer.mode > 0
    /\ webcamAnalyzer.motionIntensity > 0
    /\ visualizer.uMotionIntensity = webcamAnalyzer.motionIntensity

(***************************************************************************)
(* C21: every Visualizer.update adds exactly 0.016 to uTime, whatever its   *)
(* inputs, and makes uBeat 1.0 when the tick's beat flag is set and 0.95     *)
(* times its previous value otherwise; uTime never decreases and uBeat      *)
(* stays in [0, 1].                                                         *)
(***************************************************************************)
C21_TimeAndBeat ==
    [][(steps' # steps /\ tick'.ran) =>
          /\ visualizer'.uTime = visualizer.uTime + 16
          /\ visualizer'.uBeat = IF tick'.beat THEN 1000
                                 ELSE (visualizer.uBeat * 950) \div 1000
          /\ visualizer'.uTime >= visualizer.uTime
          /\ visualizer'.uBeat \in 0..1000]_vars

\* the second update, without a beat, after one with a beat: the flash decays
C21_Witness ==
    /\ tick.ran
    /\ ~tick.beat
    /\ visualizer.uTime = 32
    /\ visualizer.uBeat = 950

(***************************************************************************)
(* The normalisation on its own: _normalize called with any numbers, in     *)
(* thousandths, and setAdaptiveGain. audioOut holds the last call: its      *)
(* input, its result and whether adaptive gain was on.                      *)
(***************************************************************************)
NormalizeInputs == {-500, 0, 300, 301, 1000, 1500}

NormalizeInit ==
    /\ PoolFresh
    /\ CamFresh
    /\ AppFresh
    /\ audio = NewAudioAnalyzer
    /\ now = StartTime
    /\ audioOut = [op |-> "new", input |-> 0, value |-> 0, adaptive |-> FALSE]
    /\ audioCalls = 0
    /\ beatLog = << >>

NormalizeCall ==
    /\ audioCalls < MaxAudioCalls
    /\ \E value \in NormalizeInputs :
       \E n \in {Normalize(audio, value)} :
          /\ audio' = n.a
          /\ audioOut' = [op |-> "_normalize", input |-> value, value |-> n.value,
                          adaptive |-> audio.adaptiveGain]
    /\ audioCalls' = audioCalls + 1
    /\ UNCHANGED <<now, beatLog, poolVars, camVars, appVars>>

NormalizeSetAdaptiveGain ==
    /\ audioCalls < MaxAudioCalls
    /\ \E enabled \in BOOLEAN : audio' = SetAdaptiveGain(audio, enabled)
    /\ audioOut' = [op |-> "setAdaptiveGain", input |-> 0, value |-> 0, adaptive |-> FALSE]
    /\ audioCalls' = audioCalls + 1
    /\ UNCHANGED <<now, beatLog, poolVars, camVars, appVars>>

NormalizeNext ==
    \/ NormalizeCall
    \/ NormalizeSetAdaptiveGain

SpecNormalize == NormalizeInit /\ [][NormalizeNext]_vars

MaxTicks == 300

\* the raw value of every band of a flat spectrum
RawOf(level) == (level * 1000) \div 255

SteadyInit ==
    /\ PoolFresh
    /\ CamFresh
    /\ AppFresh
    /\ \E k \in {0, 700, 1000}, threshold \in {1000, 1300, 2000}, level \in {Quiet, Spike} :
          /\ audio = SetBeatThreshold(
                        SetSmoothingFactor(
                           SetAdaptiveGain(Init(NewAudioAnalyzer, "granted"), FALSE), k),
                        threshold)
          /\ audioOut = [op |-> "new", level |-> level, beat |-> FALSE, threw |-> FALSE]
    /\ now = StartTime
    /\ audioCalls = 0
    /\ beatLog = << >>

SteadyTick ==
    /\ audioCalls < MaxTicks
    /\ \E r \in {GetAudioData(audio, Flat(audioOut.level), now + FrameDt)} :
          /\ audio' = r.a
          /\ audioOut' = [op |-> "getAudioData", level |-> audioOut.level,
                          beat |-> r.beat, threw |-> r.threw]
    /\ now' = now + FrameDt
    /\ audioCalls' = audioCalls + 1
    /\ UNCHANGED <<beatLog, poolVars, camVars, appVars>>

SteadyNext == SteadyTick

\* the next animation frame is delivered: of the steps of SteadyNext these are
\* all of them, and a tick always has an outcome
SteadyFrame ==
    /\ audioCalls < MaxTicks
    /\ audioCalls' = audioCalls + 1
    /\ now' = now + FrameDt

\* the animation frames keep coming
SpecSteady == SteadyInit /\ [][SteadyNext]_vars /\ WF_<<audioCalls, now>>(SteadyFrame)

Bands == {"bass", "mid", "treble"}

\* band is within 0.005 of the raw value: the rounding of the thousandths
\* keeps the smoothed value that far from it
Settled(band) ==
    Abs(audio.previous[band] - RawOf(audioOut.level)) <= 5

(***************************************************************************)
(* C23: for every smoothing factor in [0, 1], 0 and 1 included, and a raw   *)
(* band value repeated on every call, the smoothed value moves              *)
(* monotonically toward the raw value, never passes it, and converges to    *)
(* it.                                                                      *)
(***************************************************************************)
C23_SmoothingConverges ==
    /\ [][\A band \in Bands :
             /\ audio.previous[band] <= audio'.previous[band]
             /\ audio'.previous[band] <= RawOf(audioOut.level)]_vars
    /\ <>[](\A band \in Bands : Settled(band))

(***************************************************************************)
(* C24: with adaptive gain off and the same flat spectrum on each of 300    *)
(* consecutive ticks, getBeatDetected never returns true, for every          *)
(* beatThreshold in [1.0, 2.0], and bass, mid and treble each converge to    *)
(* the constant raw level.                                                  *)
(***************************************************************************)
C24_SteadyNoBeat ==
    /\ [](audio.smoothingFactor = 700 => ~audioOut.beat)
    /\ <>[](audio.smoothingFactor = 700 => \A band \in Bands : Settled(band))

(***************************************************************************)
(* C11: the microphone and the camera acquisition always settle, even when  *)
(* the device or the permission request never answers, so init() always     *)
(* eventually starts the render loop.                                       *)
(***************************************************************************)
C11_InitSettles == <>(app.boot = "running")

\* getMotionData hands out nothing, or nothing but the zeroed baseline
NoData(d) ==
    \/ d = NullRec
    \/ /\ d.mode = 0
       /\ d.buffer = NoBuffer
       /\ d.intensity = 0
       /\ d.velocityX = 0
       /\ d.velocityY = 0

(***************************************************************************)
(* C12: immediately after a motion source is disconnected or destroyed all  *)
(* its luminance and motion buffers are invalidated, and as long as it is   *)
(* not acquired again getMotionData yields no data from before: null, or    *)
(* mode Off with no buffers and zeroed metrics.                             *)
(***************************************************************************)
C12_DisconnectInvalidates ==
    camSeen.gone =>
       /\ cam.previousFrame = NoBuffer
       /\ cam.currentFrame = NoBuffer
       /\ cam.motionBuffer = NoBuffer
       /\ NoData(GetMotionData(cam, DarkFrame).data)

\* the step switches the webcam from Trails to Off
TrailsToOff ==
    /\ webcamAnalyzer # NullRec
    /\ webcamAnalyzer' # NullRec
    /\ webcamAnalyzer.mode = 3
    /\ webcamAnalyzer'.mode = 0

Cleared(s) ==
    /\ \A i \in DOMAIN s.motionBuffer : s.motionBuffer[i] = 0
    /\ s.motionIntensity = 0
    /\ s.motionVelocityX = 0
    /\ s.motionVelocityY = 0

C8_OneSourcePerTick ==
    /\ Cardinality(tick.called) <= 1
    /\ tick.from \in tick.called \cup {"none"}

\* a tick that took the phone's motion data while a webcam was there too
C8_Witness ==
    /\ tick.ran
    /\ tick.called = {"iphone"}
    /\ tick.from = "iphone"
    /\ webcamAnalyzer # NullRec
    /\ webcamAnalyzer.mode > 0

\* the phones alive in the process
Phones ==
    (IF iphoneSource = NullRec THEN {} ELSE {iphoneSource})
    \cup {orphans[i] : i \in DOMAIN orphans}

(***************************************************************************)
(* C9: whenever an IPhoneCameraSource has no pixel access (hasCORS() is     *)
(* false), getMotionData() returns null, its mode is Off and cycleMode()    *)
(* leaves it Off, and a connected stream is there for display:              *)
(* isStreaming() is true and no connection error is recorded.               *)
(***************************************************************************)
C9_DisplayOnly ==
    \A s \in Phones :
       ~s.corsEnabled =>
          /\ GetMotionData(s, DarkFrame).data = NullRec
          /\ s.mode = 0
          /\ CycleMode(s).mode = 0
          /\ s.isConnected => IsStreaming(s) /\ ~s.connectionError

\* a phone connected by the direct fallback, on show without pixel access
C9_Witness ==
    /\ iphoneSource # NullRec
    /\ ~iphoneSource.corsEnabled
    /\ iphoneSource.isConnected
    /\ IsStreaming(iphoneSource)
    /\ app.boot = "running"

(***************************************************************************)
(* C10: when analysing a frame throws in a motion source, the error does    *)
(* not leave the render tick: the render loop has scheduled its next tick.  *)
(***************************************************************************)
C10_FrameErrorCaught == tick.frameThrew => app.loop = "scheduled"

====
